---- MODULE Spec2Model ----
(***************************************************************************)
(* Checkpointed batch pipelines of connector/scripts:                      *)
(*   mcp-compiler/compiler.py    (MCPCompiler, process_server_with_model)  *)
(*   model-compiler/compiler.py  (ModelCompiler)                           *)
(* The batch part models one operating-system process at a time working    *)
(* on three on-disk documents; a process can be interrupted at any step    *)
(* and a new process can be started on what is left on disk.  The record   *)
(* processor part models process_server_with_model for one record, one     *)
(* step per external call.                                                 *)
(***************************************************************************)
EXTENDS Integers, Sequences, FiniteSets, TLC

\* ---------------------------------------------------------------- bounds
NumServers == 3          \* records in the input catalog (Spec)
MaxRunsMCP == 2          \* processes started one after the other, mcp-compiler (Spec)
MaxRunsModel == 3        \* processes started one after the other, model-compiler (Spec)
SmallCatalog == 2        \* records in the input catalog (SpecSmall)
SmallRunsMCP == 1        \* processes started, mcp-compiler (SpecSmall)
SmallRunsModel == 3      \* processes started, model-compiler (SpecSmall)
LongCatalogMCP == 4      \* records in the input catalog, mcp-compiler (SpecLong)
LongCatalogModel == 7    \* records in the input catalog, model-compiler (SpecLong)
MaxLimit == 1            \* largest --limit value tried (0 stands for "no limit")
\* compiler.py:49 sets 15 (mcp) and compiler.py:29 sets 50 (model); the
\* interval is scaled down so that a batch of a few records crosses it.
CHECKPOINT_INTERVAL == 2

\* ------------------------------------------------------- program constants
NUM_BACKENDS == 3        \* len(LLMService.BACKENDS), the pool size of the mcp pipeline

MODEL_BACKENDS == 5      \* len(ToolCallingLLMService.BACKENDS) of the model pipeline

DEFAULT_WORKERS == 10    \* --workers of the model pipeline when not given

NoId == 0                \* "" / None as last_processed_id

VARIABLES
  pipeline,        \* "mcp" | "model": which compiler this behaviour is about
  catalog,         \* registryRefined.json / models_extended.json: the record ids in order
  progressFile,    \* progress.json
  compiledFile,    \* mcpCompiled.json / compiled_models.json
  failedFile,      \* failedServers.json / failed_models.json
  pc,              \* position of the running process
  args,            \* command line of the running process
  servers,         \* self.servers / self.models
  compiled,        \* self.compiled
  failed,          \* self.failed
  progress,        \* self.progress
  batch,           \* servers_to_process / servers_to_retry / models_to_process
  process_args,    \* process_args / retry_args / tasks: the backend of each batch position
  nextq,           \* position in batch of the next task no worker has taken yet
  running,         \* positions in batch whose task is in a worker
  checkpoint_counter,
  flush,           \* the flush in progress: which file, opened or not, and why
  budget,          \* number of processes that may still be started
  hist,            \* history (observation only, never read by the program)
  proc,            \* process_server_with_model working on one record
  pool,            \* the worker processes of the model pipeline's Pool
  llm,             \* _parse_json_response working on one response
  det              \* detect_required_vars working on one error message

vars == <<pipeline, catalog, progressFile, compiledFile, failedFile, pc, args,
          servers, compiled, failed, progress, batch, process_args, nextq, running,
          checkpoint_counter, flush, budget, hist, proc, pool, llm, det>>

disk == <<progressFile, compiledFile, failedFile>>
memory == <<servers, compiled, failed, progress, batch, process_args, nextq, running,
           checkpoint_counter>>
batchvars == <<pipeline, catalog, progressFile, compiledFile, failedFile, pc, args,
               servers, compiled, failed, progress, batch, process_args, nextq, running,
               checkpoint_counter, flush, budget, hist, pool, llm, det>>

\* ------------------------------------------------------------- data model
EmptyMap == <<>>
Put(m, k, v) == [x \in (DOMAIN m) \cup {k} |-> IF x = k THEN v ELSE m[x]]
Del(m, k) == [x \in (DOMAIN m) \ {k} |-> m[x]]

\* Progress() / ProgressData()
NewProgress ==
  [phase |-> 1, processed |-> 0, total |-> 0, last_processed_id |-> NoId,
   success_count |-> 0, failed_count |-> 0, retry_count |-> 0]

\* A document on disk is absent, complete, or truncated: open(path, "w")
\* has emptied it and json.dump has not finished writing it.
NoProgressFile == [st |-> "absent", doc |-> NewProgress]
NoCompiledFile == [st |-> "absent",
                   doc |-> [servers |-> EmptyMap, successCount |-> 0,
                            failedCount |-> 0, retryCount |-> 0]]
NoFailedFile == [st |-> "absent", doc |-> [servers |-> EmptyMap]]
Truncated(nofile) == [nofile EXCEPT !.st = "truncated"]
Complete(d) == [st |-> "complete", doc |-> d]
Intact(f) == f.st # "truncated"

Min(a, b) == IF a < b THEN a ELSE b

RECURSIVE SelectSeq2(_, _)
\* [s for s in seq if s not in m]
SelectSeq2(seq, m) ==
  IF seq = <<>> THEN <<>>
  ELSE IF Head(seq) \in DOMAIN m THEN SelectSeq2(Tail(seq), m)
       ELSE <<Head(seq)>> \o SelectSeq2(Tail(seq), m)

\* next((i for i, s in enumerate(seq) if id(s) == last), 0) + 1
StartIdx(seq, last) ==
  IF \E i \in 1..Len(seq) : seq[i] = last
    THEN (CHOOSE i \in 1..Len(seq) : seq[i] = last /\ \A j \in 1..(i-1) : seq[j] # last)
    ELSE 1

\* seq[k:]
DropFirst(seq, k) == SubSeq(seq, k + 1, Len(seq))
\* seq[:k]
TakeFirst(seq, k) == SubSeq(seq, 1, Min(k, Len(seq)))

\* if resume and last_processed_id: servers_to_process[start_idx:]
ResumeSlice(seq, resume, last) ==
  IF resume /\ last # NoId THEN DropFirst(seq, StartIdx(seq, last)) ELSE seq

\* if limit: servers_to_process[:limit]
LimitSlice(seq, limit) == IF limit # 0 THEN TakeFirst(seq, limit) ELSE seq

FilterCompiled_none(seq, comp) == seq

\* [s for s in servers_to_process if s.get("registryId") not in self.compiled]
FilterCompiled(seq, comp) == SelectSeq2(seq, comp)

\* servers_to_process of run_phase1 / models_to_process of run
ServersToProcess(seq, resume, last, limit, comp) ==
  FilterCompiled(LimitSlice(ResumeSlice(seq, resume, last), limit), comp)

\* ------------------------------------------------- what a worker returns
None == <<>>
Some(x) == <<x>>

\* (compiled, failed, success) of process_server_with_model, reduced to the
\* fields the scheduler reads; raises = future.result() raises instead.
ResultOK(id) ==
  [compiled |-> Some([id |-> id, spawn_failed |-> FALSE, vars_required |-> FALSE]),
   failed |-> None, success |-> TRUE, raises |-> FALSE]
ResultCRED(id) ==
  [compiled |-> Some([id |-> id, spawn_failed |-> TRUE, vars_required |-> TRUE]),
   failed |-> None, success |-> TRUE, raises |-> FALSE]
ResultFAILED_retryable(id) ==
  [compiled |-> None, failed |-> Some([id |-> id, retryable |-> TRUE]),
   success |-> FALSE, raises |-> FALSE]
ResultFAILED(id) ==
  [compiled |-> None, failed |-> Some([id |-> id, retryable |-> FALSE]),
   success |-> FALSE, raises |-> FALSE]
ResultRAISE(id) ==
  [compiled |-> None, failed |-> None, success |-> FALSE, raises |-> TRUE]

WorkerResults(id) == {ResultOK(id), ResultCRED(id), ResultFAILED(id), ResultRAISE(id)}

\* compile_model_worker: {"success": True, "data": ...} | {"success": False}
\* (the descriptor is taken to carry the id of its own record)
ModelWorkerResults(id) ==
  {[success |-> TRUE, data |-> [id |-> id, spawn_failed |-> FALSE, vars_required |-> FALSE]],
   [success |-> FALSE, data |-> [id |-> id, spawn_failed |-> FALSE, vars_required |-> FALSE]]}

\* ------------------------------------------------------------ documents
ProgressDoc == progress
CompiledDoc ==
  [servers |-> compiled, successCount |-> progress.success_count,
   failedCount |-> IF pipeline = "mcp" THEN Cardinality(DOMAIN failed)
                   ELSE progress.failed_count,
   retryCount |-> progress.retry_count]
FailedDoc == [servers |-> failed]

\* ------------------------------------------------------------- history
\* the Pool is not looked at: the results of its workers are there when the
\* loop asks for them
PoolOff == [watch |-> FALSE, taken |-> 0, starts |-> <<>>]
\* the Pool is looked at: taken counts the chunks of tasks handed to a
\* worker, starts[k] how often a worker has begun the task at position k
PoolWatch == [PoolOff EXCEPT !.watch = TRUE]

\* a batch of n tasks is submitted and the tasks at the positions ks begin
PoolStart(p, n, ks) ==
  IF p.watch
    THEN [p EXCEPT !.taken = 0, !.starts = [k \in 1..n |-> IF k \in ks THEN 1 ELSE 0]]
    ELSE p

\* the tasks at the positions ks begin
Started(p, ks) ==
  IF p.watch
    THEN [p EXCEPT !.starts = [k \in DOMAIN @ |-> IF k \in ks THEN @[k] + 1 ELSE @[k]]]
    ELSE p

NoArgs == [resume |-> FALSE, limit |-> 0, phase |-> "all", workers |-> 0]
NoFlush == [file |-> 0, open |-> FALSE, from |-> "none"]

HistInit ==
  [flushed |-> FALSE,       \* this process has completed a flush
   flushLog |-> <<>>,       \* the flushes of the current batch: after how many results
   sinceFlush |-> 0,        \* results handled since the last completed flush
   raised |-> FALSE,        \* a result of this process raised
   midFlush |-> FALSE,      \* the process was killed in the middle of a flush
   torn |-> FALSE,          \* an earlier process was killed in the middle of a flush
   emptyStart |-> TRUE,     \* no document existed when this process started
   startCompiled |-> EmptyMap,  \* records of the compiled document at process start
   startFailed |-> EmptyMap,    \* records of the failed document at process start
   prev |-> "none"]         \* how the process before this one went

\* "clean": started without documents and without --resume/--limit, ran to
\* its end, no result raised; "cut": killed outside a flush after such a
\* start, no result raised, before ("cut") or after ("cutFlushed") its
\* first completed flush.
PrevOf ==
  LET plain == ~args.resume /\ args.limit = 0 /\ args.phase # "2"
                /\ hist.emptyStart /\ ~hist.raised
  IN IF pc = "off" THEN "none"
     ELSE IF plain /\ pc = "exited" THEN "clean"
     ELSE IF plain /\ pc = "crashed" /\ ~hist.midFlush
       THEN (IF hist.flushed THEN "cutFlushed" ELSE "cut")
     ELSE "other"

\* history at the start of a process
HistStart ==
  [HistInit EXCEPT
     !.torn = hist.torn \/ hist.midFlush,
     !.emptyStart = progressFile.st = "absent" /\ compiledFile.st = "absent"
                    /\ failedFile.st = "absent",
     !.startCompiled = compiledFile.doc.servers,
     !.startFailed = failedFile.doc.servers,
     !.prev = PrevOf]

\* history of a process that was killed
HistCrash(mid) ==
  [HistInit EXCEPT
     !.torn = hist.torn,
     !.emptyStart = hist.emptyStart,
     !.midFlush = mid,
     !.flushed = hist.flushed,
     !.raised = hist.raised]

\* ================================================= the record processor
\* mcp-compiler/compiler.py: process_server_with_model and what it calls.
\* Catalog records are taken to be well formed (the fields have the types
\* the code reads them with).

\* ---------------------------------------------------------- error text
\* An error message is a sequence of blank-separated words.  A word
\* carries what the regular expressions of detect_required_vars look at:
\*   s    the text
\*   up   the word is an upper-case identifier, [A-Z_][A-Z0-9_]*
\*   id   the word is an identifier when case is ignored
\*   n    its length
\*   U    s.upper()
\*   env  it starts with "env", case ignored
\*   req  it contains "required", case ignored
Word(s, up, id, n, U, env, req) ==
  [s |-> s, up |-> up, id |-> id, n |-> n, U |-> U, env |-> env, req |-> req]

wRequires == Word("requires", FALSE, TRUE, 8, "REQUIRES", FALSE, FALSE)
wCredentials == Word("credentials:", FALSE, FALSE, 12, "CREDENTIALS:", FALSE, FALSE)
wAPI_KEY == Word("API_KEY", TRUE, TRUE, 7, "API_KEY", FALSE, FALSE)
wToken == Word("token", FALSE, TRUE, 5, "TOKEN", FALSE, FALSE)
wEnvironment == Word("environment", FALSE, TRUE, 11, "ENVIRONMENT", TRUE, FALSE)
wVariable == Word("variable", FALSE, TRUE, 8, "VARIABLE", FALSE, FALSE)
wRequired == Word("required", FALSE, TRUE, 8, "REQUIRED", FALSE, TRUE)
wSERVER == Word("SERVER", TRUE, TRUE, 6, "SERVER", FALSE, FALSE)
wERROR == Word("ERROR", TRUE, TRUE, 5, "ERROR", FALSE, FALSE)
wKEY == Word("KEY", TRUE, TRUE, 3, "KEY", FALSE, FALSE)
wSpawn == Word("Spawn", FALSE, TRUE, 5, "SPAWN", FALSE, FALSE)
wTimeout == Word("timeout", FALSE, TRUE, 7, "TIMEOUT", FALSE, FALSE)
wSeconds == Word("(90s)", FALSE, FALSE, 5, "(90S)", FALSE, FALSE)
wConnection == Word("Connection", FALSE, TRUE, 10, "CONNECTION", FALSE, FALSE)
wRefused == Word("refused", FALSE, TRUE, 7, "REFUSED", FALSE, FALSE)

\* the words pattern 3 never reports
DeniedVars == {"SERVER", "ERROR", "FAILED", "TIMEOUT", "SESSION", "ID", "MCP", "API"}

\* re.search(r"requires credentials:\s*([A-Z_][A-Z0-9_]+)", error_msg)
Pattern1(msg) ==
  {i \in 1..(Len(msg) - 2) :
     /\ msg[i].s = "requires" /\ msg[i + 1].s = "credentials:"
     /\ msg[i + 2].up /\ msg[i + 2].n >= 2}

\* re.search(r"([A-Z_][A-Z0-9_]{2,})\s*(?:environment variable required|env.*required)",
\*           error_msg, re.IGNORECASE)
Pattern2(msg) ==
  {i \in 1..(Len(msg) - 1) :
     /\ msg[i].id /\ msg[i].n >= 3
     /\ msg[i + 1].env
     /\ \E j \in (i + 1)..Len(msg) : msg[j].req}

\* re.findall(r"\b([A-Z_][A-Z0-9_]{3,})\b", error_msg) without the denied words
Pattern3(msg) ==
  {msg[i].s : i \in {j \in 1..Len(msg) : msg[j].up /\ msg[j].n >= 4}} \ DeniedVars

SetMin(S) == CHOOSE x \in S : \A y \in S : x <= y

\* vars_required[var_name] = f"Required: {var_name}", kept as name |-> name
VarsOf(S) == [v \in S |-> v]

detect_required_vars_noreturn(msg) ==
  IF Pattern1(msg) # {} THEN VarsOf({msg[SetMin(Pattern1(msg)) + 2].s} \cup Pattern3(msg))
  ELSE IF Pattern2(msg) # {} THEN VarsOf({msg[SetMin(Pattern2(msg))].U})
  ELSE VarsOf(Pattern3(msg))

\* detect_required_vars(error_msg)
detect_required_vars(msg) ==
  IF Pattern1(msg) # {} THEN VarsOf({msg[SetMin(Pattern1(msg)) + 2].s})
  ELSE IF Pattern2(msg) # {} THEN VarsOf({msg[SetMin(Pattern2(msg))].U})
  ELSE VarsOf(Pattern3(msg))

MaxWords == 4            \* longest error message, in words

wX == Word("X", TRUE, TRUE, 1, "X", FALSE, FALSE)
wTOKEN_ID == Word("TOKEN_ID", TRUE, TRUE, 8, "TOKEN_ID", FALSE, FALSE)

Vocabulary ==
  {wRequires, wCredentials, wAPI_KEY, wX, wTOKEN_ID, wSERVER, wEnvironment, wRequired}

\* the error messages of at most MaxWords words
ErrorTexts == UNION {[1..k -> Vocabulary] : k \in 0..MaxWords}

\* the state of one call of detect_required_vars
DetIdle == [pc |-> "idle", error_msg |-> <<>>, vars_required |-> <<>>]

DetectRequiredVars ==
  /\ det.pc = "call"
  /\ det' = [det EXCEPT !.pc = "done", !.vars_required = detect_required_vars(det.error_msg)]
  /\ UNCHANGED <<llm, proc, pool, pipeline, catalog, progressFile, compiledFile, failedFile, pc,
                 args, servers, compiled, failed, progress, batch, process_args, nextq,
                 running, checkpoint_counter, flush, budget, hist>>

\* ------------------------------------------------------ catalog records
MaxPackages == 2         \* longest "packages" list of a catalog record
MaxRemotes == 1          \* longest "remotes" list of a catalog record

Get(d, k, default) == IF k \in DOMAIN d THEN d[k] ELSE default

PackageKinds ==
  {[spawn |-> [command |-> "npx", args |-> <<"-y", "pkg-a">>], identifier |-> "pkg-a"],
   [registryType |-> "npm", identifier |-> "pkg-n"],
   [registryType |-> "pypi", identifier |-> "pkg-p"],
   [registryType |-> "oci", identifier |-> "pkg-o"]}

\* A URL is its text cut in pieces: the scheme, the pieces of the host and
\* the pieces after the host; the empty string has no piece.
Url(scheme, host, rest) == [scheme |-> scheme, host |-> host, rest |-> rest]
NoUrl == Url("", <<>>, <<>>)
Text(url) == IF url = NoUrl THEN <<>> ELSE <<url.scheme>> \o url.host \o url.rest

uSite == Url("https://", <<"mcp.site">>, <<"/sse">>)
uLocalhost == Url("http://", <<"localhost">>, <<":3000">>)
uLOCALHOST == Url("http://", <<"LOCALHOST">>, <<":3000">>)
uLoopback == Url("http://", <<"127.0.0.1">>, <<":8080", "/mcp">>)
uAnyAddr == Url("http://", <<"0.0.0.0">>, <<":8000">>)
uExample == Url("https://", <<"api.", "example.com">>, <<"/mcp">>)
uYour == Url("https://", <<"your-", "server.com">>, <<"/sse">>)
uYourKey == Url("https://", <<"mcp.site">>, <<"/sse?key=", "your-", "key">>)

RemoteKinds ==
  {[url |-> uSite, type |-> "streamable-http"],
   [url |-> uLocalhost],
   [url |-> NoUrl]}

RemoteUrls == {NoUrl, uSite, uLocalhost}

\* the endpoints a record of the catalog may name
AllUrls == {uSite, uLocalhost, uLOCALHOST, uLoopback, uAnyAddr, uExample, uYour, uYourKey}
Images == {"", "ghcr.io/a/b"}

SeqsUpTo(S, n) == UNION {[1..k -> S] : k \in 0..n}

\* a catalog record with its fields at top level, or under "raw"
FlatRecords ==
  {[registryId |-> "srv", name |-> "Srv", description |-> "d",
    packages |-> p, remotes |-> r, remoteUrl |-> u, image |-> g] :
     p \in SeqsUpTo(PackageKinds, MaxPackages), r \in SeqsUpTo(RemoteKinds, MaxRemotes),
     u \in RemoteUrls, g \in Images}

\* str.lower() of one piece
Lower(piece) == IF piece = "LOCALHOST" THEN "localhost" ELSE piece

Placeholders == {"localhost", "127.0.0.1", "your-", "example.com", "0.0.0.0"}

IsPlaceholderUrl_cased(url) ==
  \E n \in 1..Len(Text(url)) : Text(url)[n] \in Placeholders

\* any(p in url.lower() for p in ["localhost", "127.0.0.1", "your-", "example.com", "0.0.0.0"])
IsPlaceholderUrl(url) ==
  \E n \in 1..Len(Text(url)) : Lower(Text(url)[n]) \in Placeholders

TRANSPORT_PRIORITY == <<"npx", "stdio", "http", "docker">>

RECURSIVE PackageConfigs_all(_)
PackageConfigs_all(packages) ==
  IF packages = <<>> THEN <<>>
  ELSE LET pkg == Head(packages)
           spawn == Get(pkg, "spawn", [command |-> ""])
       IN (IF spawn.command = "npx"
             THEN <<[transport |-> "npx", package |-> spawn.args[Len(spawn.args)]]>>
           ELSE IF Get(pkg, "registryType", "") = "npm"
             THEN <<[transport |-> "npx", package |-> pkg.identifier]>>
           ELSE IF Get(pkg, "registryType", "") = "pypi"
             THEN <<[transport |-> "stdio", command |-> "uvx"]>>
           ELSE <<>>)
          \o PackageConfigs_all(Tail(packages))

\* the config of the first package that gives one ("break"), if any
RECURSIVE PackageConfigs(_)
PackageConfigs(packages) ==
  IF packages = <<>> THEN <<>>
  ELSE LET pkg == Head(packages)
           spawn == Get(pkg, "spawn", [command |-> ""])
       IN IF spawn.command = "npx"
            THEN <<[transport |-> "npx", package |-> spawn.args[Len(spawn.args)]]>>
          ELSE IF Get(pkg, "registryType", "") = "npm"
            THEN <<[transport |-> "npx", package |-> pkg.identifier]>>
          ELSE IF Get(pkg, "registryType", "") = "pypi"
            THEN <<[transport |-> "stdio", command |-> "uvx"]>>
          ELSE PackageConfigs(Tail(packages))

RECURSIVE RemoteConfigs(_)
RemoteConfigs(remotes) ==
  IF remotes = <<>> THEN <<>>
  ELSE LET url == Get(Head(remotes), "url", NoUrl)
       IN (IF url # NoUrl /\ ~IsPlaceholderUrl(url)
             THEN <<[transport |-> "http", remoteUrl |-> url,
                     protocol |-> Get(Head(remotes), "type", "sse")]>>
             ELSE <<>>)
          \o RemoteConfigs(Tail(remotes))

RemoteUrlConfigs(remote_url) ==
  IF remote_url # NoUrl /\ ~IsPlaceholderUrl(remote_url)
    THEN <<[transport |-> "http", remoteUrl |-> remote_url, protocol |-> "sse"]>>
    ELSE <<>>

ImageConfigs(image) ==
  IF image # "" THEN <<[transport |-> "docker", image |-> image]>> ELSE <<>>

\* no deduplication
UniqueConfigs_all(configs, seen) == configs

RECURSIVE UniqueConfigs(_, _)
\* the first config of each transport
UniqueConfigs(configs, seen) ==
  IF configs = <<>> THEN <<>>
  ELSE IF Head(configs).transport \in seen
    THEN UniqueConfigs(Tail(configs), seen)
    ELSE <<Head(configs)>> \o UniqueConfigs(Tail(configs), seen \cup {Head(configs).transport})

\* sort_key(c)
sort_key(c) ==
  IF \E i \in 1..Len(TRANSPORT_PRIORITY) : TRANSPORT_PRIORITY[i] = c.transport
    THEN (CHOOSE i \in 1..Len(TRANSPORT_PRIORITY) : TRANSPORT_PRIORITY[i] = c.transport) - 1
    ELSE Len(TRANSPORT_PRIORITY)

RECURSIVE InsertSorted(_, _)
InsertSorted(c, sorted) ==
  IF sorted = <<>> THEN <<c>>
  ELSE IF sort_key(c) < sort_key(Head(sorted))
    THEN <<c>> \o sorted
    ELSE <<Head(sorted)>> \o InsertSorted(c, Tail(sorted))

RECURSIVE SortConfigs(_)
\* unique_configs.sort(key=sort_key): a stable sort
SortConfigs(configs) ==
  IF configs = <<>> THEN <<>>
  ELSE InsertSorted(configs[Len(configs)], SortConfigs(SubSeq(configs, 1, Len(configs) - 1)))

\* get_spawn_configs(server)
get_spawn_configs(server) ==
  LET raw == Get(server, "raw", server)
      remote_url == IF Get(raw, "remoteUrl", NoUrl) # NoUrl THEN raw.remoteUrl
                    ELSE Get(server, "remoteUrl", NoUrl)
      image == IF Get(raw, "image", "") # "" THEN raw.image ELSE Get(server, "image", "")
  IN SortConfigs(UniqueConfigs(
       PackageConfigs(Get(raw, "packages", <<>>)) \o RemoteConfigs(Get(raw, "remotes", <<>>))
         \o RemoteUrlConfigs(remote_url) \o ImageConfigs(image), {}))

\* the same record with its fields under "raw"
Nested(r) ==
  [registryId |-> r.registryId, name |-> r.name, description |-> r.description, raw |-> r]

ServerRecords == FlatRecords \cup {Nested(r) : r \in FlatRecords}

\* catalog records that name remote endpoints of every sort
RemoteRecords ==
  LET flat == {[registryId |-> "srv", name |-> "Srv", description |-> "d",
                packages |-> <<>>, remotes |-> r, remoteUrl |-> u, image |-> g] :
                 r \in SeqsUpTo({[url |-> x] : x \in AllUrls}, MaxRemotes),
                 u \in AllUrls \cup {NoUrl}, g \in Images}
  IN flat \cup {Nested(r) : r \in flat}

\* catalog records that resolve to no config, to one, to two and to three
OutcomeRecords ==
  {[registryId |-> "srv", name |-> "Srv", description |-> "d",
    packages |-> p, remotes |-> <<>>, remoteUrl |-> u, image |-> g] :
     p \in SeqsUpTo({k \in PackageKinds : "registryType" \in DOMAIN k}, 1),
     u \in {NoUrl, uSite}, g \in Images}

\* ------------------------------------------------- output validation
\* A text is cut in runs: n characters of class c; w names the word a run
\* spells when the code looks for that word, "" otherwise.  Classes: "a"
\* lower-case letter or digit, "A" upper-case letter, "-", " " white space,
\* "_" any other character.
Run(c, n, w) == [c |-> c, n |-> n, w |-> w]

RECURSIVE StrLen(_)
\* len(s)
StrLen(s) == IF s = <<>> THEN 0 ELSE Head(s).n + StrLen(Tail(s))

RECURSIVE Take(_, _)
\* s[:k]
Take(s, k) ==
  IF s = <<>> \/ k <= 0 THEN <<>>
  ELSE IF Head(s).n <= k THEN <<Head(s)>> \o Take(Tail(s), k - Head(s).n)
  ELSE <<Run(Head(s).c, k, "")>>

RECURSIVE LStrip(_, _)
LStrip(s, cs) == IF s # <<>> /\ Head(s).c \in cs THEN LStrip(Tail(s), cs) ELSE s

RECURSIVE RStrip(_, _)
RStrip(s, cs) ==
  IF s # <<>> /\ s[Len(s)].c \in cs THEN RStrip(SubSeq(s, 1, Len(s) - 1), cs) ELSE s

\* s.strip() with cs = {" "}, s.strip("-") with cs = {"-"}
StripChars(s, cs) == RStrip(LStrip(s, cs), cs)

\* s.lower()
LowerStr(s) == [i \in 1..Len(s) |-> IF s[i].c = "A" THEN Run("a", s[i].n, s[i].w) ELSE s[i]]

\* re.sub(r"[^a-z0-9-]", "-", s)
SubNonTagChars(s) ==
  [i \in 1..Len(s) |-> IF s[i].c \in {"a", "-"} THEN s[i] ELSE Run("-", s[i].n, "")]

BANNED_TAGS ==
  {"mcp", "server", "tool", "api", "client", "wrapper", "helper", "utility", "utilities"}

\* tag in self.BANNED_TAGS
IsBanned(tag) == Len(tag) = 1 /\ tag[1].c = "a" /\ tag[1].w \in BANNED_TAGS

MAX_TAG_LEN == 25
MIN_TAG_LEN == 2
TAGS_READ == 5
MAX_TAGS == 4
MIN_TAGS == 2
MIN_NAME_LEN == 3
MAX_NAME_LEN == 60
MIN_DESC_LEN == 20
MAX_DESC_LEN == 200

CleanTag_nostrip(t) == SubNonTagChars(Take(StripChars(LowerStr(t), {" "}), MAX_TAG_LEN))

\* tag = str(t).lower().strip()[:25]; tag = re.sub(...).strip("-")
CleanTag(t) ==
  StripChars(SubNonTagChars(Take(StripChars(LowerStr(t), {" "}), MAX_TAG_LEN)), {"-"})

RECURSIVE CleanTags_banned(_)
CleanTags_banned(list) ==
  IF list = <<>> THEN <<>>
  ELSE LET tag == CleanTag(Head(list))
       IN (IF tag # <<>> /\ StrLen(tag) >= MIN_TAG_LEN THEN <<tag>> ELSE <<>>)
          \o CleanTags_banned(Tail(list))

RECURSIVE CleanTags(_)
\* the loop over data["tags"][:5]
CleanTags(list) ==
  IF list = <<>> THEN <<>>
  ELSE LET tag == CleanTag(Head(list))
       IN (IF tag # <<>> /\ ~IsBanned(tag) /\ StrLen(tag) >= MIN_TAG_LEN THEN <<tag>> ELSE <<>>)
          \o CleanTags(Tail(list))

\* " ".join(s.split()) / re.sub(r"\s+", " ", s).strip(): one blank for each
\* stretch of white space inside, none at the ends
RECURSIVE OneBlank(_)
OneBlank(s) ==
  IF s = <<>> THEN <<>>
  ELSE IF Head(s).c = " "
    THEN <<Run(" ", 1, "")>> \o OneBlank(LStrip(s, {" "}))
    ELSE <<Head(s)>> \o OneBlank(Tail(s))

Collapse(s) == OneBlank(StripChars(s, {" "}))

\* the runs of s that spell the phrase, marked with class "M"
RECURSIVE Mark(_, _)
Mark(s, phrase) ==
  IF s = <<>> THEN <<>>
  ELSE IF /\ Len(phrase) <= Len(s)
          /\ \A i \in 1..Len(phrase) :
               IF phrase[i] = " " THEN s[i].c = " " /\ s[i].n = 1 ELSE s[i].w = phrase[i]
    THEN <<Run("M", 1, "")>> \o Mark(SubSeq(s, Len(phrase) + 1, Len(s)), phrase)
    ELSE <<Head(s)>> \o Mark(Tail(s), phrase)

\* white space next to a marked run, across white space and marked runs
NextToMark(s, i) ==
  /\ s[i].c = " "
  /\ \E j \in 1..Len(s) :
       /\ s[j].c = "M"
       /\ \A k \in (IF i < j THEN i..j ELSE j..i) : s[k].c \in {" ", "M"}

RECURSIVE Blanked(_, _)
Blanked(s, i) ==
  IF i > Len(s) THEN <<>>
  ELSE (IF s[i].c = "M" THEN <<Run(" ", 1, "")>>
        ELSE IF NextToMark(s, i) THEN <<>> ELSE <<s[i]>>)
       \o Blanked(s, i + 1)

\* re.sub(rf"\s*{re.escape(phrase)}\s*", " ", name, flags=re.IGNORECASE)
SubPhrase(s, phrase) == Blanked(Mark(s, phrase), 1)

NAME_PHRASES == << <<"MCP", " ", "Server">>, <<"MCP">>, <<"Server">>, <<"| Glama">>, <<"| PulseMCP">> >>

RECURSIVE SubPhrases(_, _)
\* for phrase in [...]: name = re.sub(...)
SubPhrases(s, phrases) ==
  IF phrases = <<>> THEN s ELSE SubPhrases(SubPhrase(s, Head(phrases)), Tail(phrases))

RECURSIVE SubBy(_)
\* re.sub(r"\s+by\s+\S+", "", name, flags=re.IGNORECASE)
SubBy(s) ==
  IF s = <<>> THEN <<>>
  ELSE IF /\ Len(s) >= 4
          /\ s[1].c = " " /\ s[2].w = "by" /\ s[3].c = " " /\ s[4].c # " "
    THEN SubBy(LStrip(SubSeq(s, 4, Len(s)), {"a", "A", "-", "_"}))
    ELSE <<Head(s)>> \o SubBy(Tail(s))

\* the name of a validated result, None when too short
CleanName(name) ==
  LET cleaned == Collapse(SubBy(SubPhrases(StripChars(name, {" "}), NAME_PHRASES)))
  IN IF StrLen(cleaned) < MIN_NAME_LEN THEN None ELSE Some(Take(cleaned, MAX_NAME_LEN))

\* re.sub(r"^MCP server:\s*", "", desc, flags=re.IGNORECASE)
SubPrefix(s) ==
  IF s # <<>> /\ s[1].w = "MCP server:" THEN LStrip(Tail(s), {" "}) ELSE s

\* the description of a validated result, None when too short
CleanDesc(desc) ==
  LET cleaned == Collapse(SubPrefix(StripChars(desc, {" "})))
  IN IF StrLen(cleaned) < MIN_DESC_LEN THEN None ELSE Some(Take(cleaned, MAX_DESC_LEN))

\* A response is cut in pieces: "text" without braces, "fence" a line that
\* starts a code fence, "open" text with a "{", "close" text with a "}",
\* "object" the text of a JSON object, "scalar" the text of another JSON value.
Piece(k, data) == [k |-> k, data |-> data]
NoData == <<>>

RECURSIVE InFences(_, _)
\* the lines between code fences
InFences(content, in_code) ==
  IF content = <<>> THEN <<>>
  ELSE IF Head(content).k = "fence" THEN InFences(Tail(content), ~in_code)
  ELSE (IF in_code THEN <<Head(content)>> ELSE <<>>) \o InFences(Tail(content), in_code)

Unfenced(content) ==
  IF \E i \in 1..Len(content) : content[i].k = "fence"
    THEN (IF InFences(content, FALSE) # <<>> THEN InFences(content, FALSE) ELSE content)
    ELSE content

\* content[content.find("{") : content.rfind("}") + 1]
Braced(content) ==
  LET opens == {i \in 1..Len(content) : content[i].k \in {"open", "object"}}
      closes == {i \in 1..Len(content) : content[i].k \in {"close", "object"}}
  IN IF opens # {} /\ closes # {}
       THEN LET start == CHOOSE i \in opens : \A j \in opens : i <= j
                end == CHOOSE i \in closes : \A j \in closes : i >= j
            IN IF end >= start THEN SubSeq(content, start, end) ELSE content
       ELSE content

\* re.sub(r"^.*?(\{)", r"\1", content): up to the first "{"
Preamble(content) ==
  LET opens == {i \in 1..Len(content) : content[i].k \in {"open", "object"}}
  IN IF opens = {} THEN content
     ELSE SubSeq(content, CHOOSE i \in opens : \A j \in opens : i <= j, Len(content))

\* LLMService._parse_json_response(content, is_reasoning_model)
parse_json_response(content, is_reasoning_model) ==
  LET c1 == IF is_reasoning_model THEN Preamble(content) ELSE content
      c2 == Braced(Unfenced(c1))
  IN IF Len(c2) # 1 \/ c2[1].k \notin {"object", "scalar"} THEN None  \* JSONDecodeError
     ELSE LET data == c2[1].data
          IN IF c2[1].k # "object" THEN None
             ELSE IF ~({"name", "description", "tags"} \subseteq DOMAIN data) THEN None
             ELSE IF ~data.tags.list THEN None
             ELSE LET name == CleanName(data.name)
                      desc == CleanDesc(data.description)
                      tags == CleanTags(TakeFirst(data.tags.items, TAGS_READ))
                  IN IF name = None \/ desc = None \/ Len(tags) < MIN_TAGS THEN None
                     ELSE Some([name |-> name[1], description |-> desc[1],
                                tags |-> TakeFirst(tags, MAX_TAGS)])

\* --------------------------------------- responses of the text generator
MaxTagList == 2          \* longest list of tags of any sort in a response
LongTagList == 6         \* longest list of plain tags in a response

Wd(n) == Run("a", n, "")
Sp(n) == Run(" ", n, "")

Names ==
  {<<Wd(4)>>, <<Wd(2)>>, <<Wd(70)>>,
   <<Wd(5), Sp(1), Run("A", 3, "MCP"), Sp(1), Run("A", 6, "Server")>>,
   <<Wd(2), Sp(1), Run("A", 3, "MCP")>>,
   <<Wd(5), Sp(1), Run("a", 2, "by"), Sp(1), Wd(6)>>,
   <<Wd(59), Sp(2), Wd(5)>>,
   <<Sp(2), Wd(3), Sp(3), Run("A", 7, "| Glama")>>}

Descriptions ==
  {<<Wd(19)>>, <<Wd(20)>>, <<Wd(150), Sp(3), Wd(80)>>,
   <<Run("A", 11, "MCP server:"), Sp(1), Wd(12)>>,
   <<Run("A", 11, "MCP server:"), Sp(1), Wd(25)>>}

tEcho == <<Wd(4)>>
tAPI == <<Run("A", 3, "api")>>

TagTexts ==
  {tEcho, tAPI, <<Wd(1)>>, <<Wd(30)>>, <<Run("_", 2, "")>>,
   <<Run("A", 1, ""), Wd(3), Sp(1), Run("A", 1, ""), Wd(6)>>,
   <<Wd(24), Run("-", 3, ""), Wd(2)>>,
   <<Run("-", 1, ""), Run("a", 3, "api"), Run("_", 1, "")>>}

TagLists ==
  SeqsUpTo(TagTexts, MaxTagList)
    \cup UNION {[1..k -> {tEcho, tAPI}] : k \in TAGS_READ..LongTagList}

\* json.loads of the object a response carries: every name and description
\* with a few lists of tags, and every list of tags with a few names and
\* descriptions
Objects ==
  {[name |-> n, description |-> d, tags |-> [list |-> TRUE, items |-> t]] :
     n \in Names, d \in Descriptions,
     t \in {<<tEcho, tEcho>>, <<tEcho, tAPI>>, <<tEcho>>}}
  \cup
  {[name |-> n, description |-> d, tags |-> [list |-> TRUE, items |-> t]] :
     n \in {<<Wd(4)>>, <<Wd(70)>>}, d \in {<<Wd(20)>>, <<Wd(19)>>}, t \in TagLists}
  \cup {[name |-> <<Wd(4)>>, description |-> <<Wd(20)>>,
         tags |-> [list |-> FALSE, items |-> <<>>]],
        [name |-> <<Wd(4)>>, description |-> <<Wd(20)>>],
        [name |-> <<Wd(4)>>, tags |-> [list |-> TRUE, items |-> <<tEcho, tEcho>>]],
        [description |-> <<Wd(20)>>, tags |-> [list |-> TRUE, items |-> <<tEcho, tEcho>>]]}

pText == Piece("text", NoData)
pFence == Piece("fence", NoData)

\* what the generator wraps around the object
Envelopes(obj) ==
  {<<obj>>, <<pText, obj>>, <<pFence, obj, pFence>>, <<pText, pFence, obj, pFence, pText>>,
   <<Piece("open", NoData), Piece("close", NoData), obj>>, <<pFence, pText, pFence, obj>>}

Responses ==
  UNION {Envelopes(Piece("object", d)) : d \in Objects}
    \cup {<<pText>>, <<Piece("scalar", NoData)>>, <<>>}

\* the state of one call of _parse_json_response
LLMIdle == [pc |-> "idle", content |-> <<>>, is_reasoning_model |-> FALSE, result |-> None]

ParseJsonResponse ==
  /\ llm.pc = "parse"
  /\ llm' = [llm EXCEPT !.pc = "done",
                        !.result = parse_json_response(llm.content, llm.is_reasoning_model)]
  /\ UNCHANGED <<det, proc, pool, pipeline, catalog, disk, pc, args, memory, flush, budget, hist>>

\* ------------------------------------------------- the call of the model
MAX_RETRIES == 3

\* LLMService.BACKENDS
BACKENDS ==
  <<[provider |-> "qwen", model |-> "qwen/qwen3-32b",
     fallback |-> "meta-llama/llama-3.3-70b-instruct"],
    [provider |-> "nousresearch", model |-> "nousresearch/hermes-4-70b",
     fallback |-> "meta-llama/llama-3.3-70b-instruct"],
    [provider |-> "minimax", model |-> "minimax/minimax-m2.1",
     fallback |-> "qwen/qwen3-32b"]>>

\* the backends a caller hands to _call_llm: those of BACKENDS, and, from a
\* caller of clean_server_worker, one without fallback and one that names
\* itself as fallback
CallerBackends ==
  {BACKENDS[i] : i \in 1..Len(BACKENDS)}
    \cup {[provider |-> "qwen", model |-> "qwen/qwen3-32b"],
          [provider |-> "qwen", model |-> "qwen/qwen3-32b", fallback |-> "qwen/qwen3-32b"]}

\* "minimax" in model or "m2.1" in model
IsReasoningModel(model) == model = "minimax/minimax-m2.1"

\* the exception classes of a backend call and the class each derives from
ExcBase ==
  [RateLimitError |-> "APIError", APITimeoutError |-> "APIConnectionError",
   APIConnectionError |-> "APIError", APIError |-> "Exception",
   IndexError |-> "Exception", ConnectionError |-> "Exception", Exception |-> ""]

RECURSIVE IsA(_, _)
\* isinstance for the classes of ExcBase
IsA(cls, base) == cls # "" /\ (cls = base \/ IsA(ExcBase[cls], base))

EXCEPT_CLAUSES_api == <<"RateLimitError", "APITimeoutError", "APIError">>
\* the except clauses of the try statement in the retry loop, in order
EXCEPT_CLAUSES == <<"RateLimitError", "APITimeoutError", "APIError", "Exception">>

\* the clause that catches an exception of class cls, "" if none does
Handler(cls) ==
  LET hit == {i \in 1..Len(EXCEPT_CLAUSES) : IsA(cls, EXCEPT_CLAUSES[i])}
  IN IF hit = {} THEN "" ELSE EXCEPT_CLAUSES[CHOOSE i \in hit : \A j \in hit : i <= j]

\* what chat.completions.create does: it returns a message content, or
\* raises; connection says whether str(e).lower() contains "connection"
Raise(cls, connection) == [k |-> "raise", cls |-> cls, connection |-> connection]

cValid ==
  <<Piece("object", [name |-> <<Wd(4)>>, description |-> <<Wd(20)>>,
                     tags |-> [list |-> TRUE, items |-> <<tEcho, tEcho>>]])>>

BackendOutcomes ==
  {[k |-> "content", content |-> c] : c \in {cValid, <<pText>> \o cValid, <<pText>>, <<>>}}
    \cup {Raise(c, c \in {"APIConnectionError", "APITimeoutError", "ConnectionError"}) :
            c \in DOMAIN ExcBase \ {"Exception"}}
    \cup {Raise("Exception", b) : b \in BOOLEAN}

\* the state of one call of _call_llm between two calls of the backend;
\* calls (the model and the outcome of each backend call so far, in_loop
\* telling the calls of the retry loop) is observation only
CallNew(backend) ==
  [pc |-> "create", backend |-> backend, model |-> backend.model,
   fallback_model |-> Get(backend, "fallback", ""), attempt |-> 0,
   content |-> <<>>, is_reasoning_model |-> IsReasoningModel(backend.model),
   result |-> None, calls |-> <<>>]

Called(l, in_loop, outcome) ==
  [l EXCEPT !.calls = Append(@, [model |-> IF in_loop THEN l.model ELSE l.fallback_model,
                                 in_loop |-> in_loop, outcome |-> outcome.k])]

\* "return None" and "return self._parse_json_response(content, ...)"
ReturnNone(l) == [l EXCEPT !.pc = "done", !.result = None]
ToParse(l, content, is_reasoning_model) ==
  [l EXCEPT !.pc = "parse", !.content = content, !.is_reasoning_model = is_reasoning_model]

\* the code behind the retry loop, up to the call of the fallback
AfterLoop(l) ==
  IF l.fallback_model # "" /\ l.model # l.fallback_model
    THEN [l EXCEPT !.pc = "fallback"]
    ELSE ReturnNone(l)

\* the end of an iteration of "for attempt in range(MAX_RETRIES)"
NextAttempt(l) ==
  IF l.attempt + 1 < MAX_RETRIES
    THEN [l EXCEPT !.pc = "create", !.attempt = @ + 1]
    ELSE AfterLoop(l)

\* one iteration of the retry loop: the backend answers with outcome
Create(outcome) ==
  /\ llm.pc = "create"
  /\ LET l == Called(llm, TRUE, outcome)
     IN llm' =
          IF outcome.k = "content"
            THEN (IF outcome.content # <<>>
                    THEN ToParse(l, outcome.content, l.is_reasoning_model)
                    ELSE ReturnNone(l))
          ELSE IF Handler(outcome.cls) \in {"RateLimitError", "APITimeoutError", "APIError"}
            THEN NextAttempt(l)
          ELSE IF Handler(outcome.cls) = "Exception"
            THEN (IF outcome.connection /\ l.fallback_model # ""
                       /\ l.model # l.fallback_model
                    THEN NextAttempt([l EXCEPT !.model = l.fallback_model])
                    ELSE AfterLoop(l))
          ELSE [l EXCEPT !.pc = "raised"]
  /\ UNCHANGED <<det, proc, pool, pipeline, catalog, disk, pc, args, memory, flush, budget, hist>>

\* the call of the fallback behind the loop: the backend answers with outcome
Fallback(outcome) ==
  /\ llm.pc = "fallback"
  /\ LET l == Called(llm, FALSE, outcome)
     IN llm' =
          IF outcome.k = "content"
            THEN (IF outcome.content # <<>> THEN ToParse(l, outcome.content, FALSE)
                  ELSE ReturnNone(l))
          ELSE IF IsA(outcome.cls, "Exception") THEN ReturnNone(l)
          ELSE [l EXCEPT !.pc = "raised"]
  /\ UNCHANGED <<det, proc, pool, pipeline, catalog, disk, pc, args, memory, flush, budget, hist>>

\* LLMService._call_llm(prompt, backend)
CallLLM ==
  \/ \E outcome \in BackendOutcomes : Create(outcome)
  \/ \E outcome \in BackendOutcomes : Fallback(outcome)
  \/ ParseJsonResponse

\* --------------------------------- model pipeline: the call of the model
\* model-compiler/llm_service.py: ToolCallingLLMService._call_ollama_with_tools

\* "for _ in range(3)"
MAX_TURNS == 3

\* the names a backend asks to be called: web_search, or a function the
\* service does not have
ToolNames == {"web_search", "lookup"}

\* the keys _parse_json_response asks for
REQUIRED_KEYS == {"id", "name", "contextLength"}

\* What requests.post and response.json() give in one turn.
\*   status     the status code is not 200
\*   exception  requests.post raises a RequestException (timeout, connection)
\*   notjson    the body is not JSON: response.json() raises an error that is
\*              a RequestException in some versions of requests (caught) and
\*              a plain ValueError in others (not caught)
\*   malformed  the body is JSON but no object: result.get raises
\*   message    an object with a message; tool_calls is the list of function
\*              names asked for (<<>>: key absent or list empty), content
\*              says whether the text is a JSON object and which keys it has
\* The entries of tool_calls are taken to be well formed (objects whose
\* arguments are an object, as the chat endpoint of the backend sends them).
ToolReplies ==
  {[kind |-> k, caught |-> TRUE, tool_calls |-> <<>>, json |-> FALSE, keys |-> {}] :
     k \in {"status", "exception", "notjson", "malformed"}}
  \cup {[kind |-> "notjson", caught |-> FALSE, tool_calls |-> <<>>, json |-> FALSE,
          keys |-> {}]}
  \cup {[kind |-> "message", caught |-> TRUE, tool_calls |-> t, json |-> FALSE, keys |-> {}] :
          t \in SeqsUpTo(ToolNames, 2) \ {<<>>}}
  \cup {[kind |-> "message", caught |-> TRUE, tool_calls |-> <<>>, json |-> j, keys |-> ks] :
          j \in BOOLEAN, ks \in {REQUIRED_KEYS, {"id", "name"}}}

\* ToolCallingLLMService._parse_json_response: the object, if the text is
\* one and has the three keys
model_parse_json_response(reply) ==
  IF reply.json /\ REQUIRED_KEYS \subseteq reply.keys THEN Some(reply.keys) ELSE None

\* the call about to send its first request: messages holds the system and
\* the user message; requests and tool_turns are observation only
ToolsNew(backend) ==
  [pc |-> "post", backend |-> backend, turn |-> 0, messages |-> 2,
   result |-> None, requests |-> 0, tool_turns |-> 0]

MoreTurns_always(l) == TRUE

\* the for loop has another turn
MoreTurns(l) == l.turn + 1 < MAX_TURNS

\* the web_search calls among the tool calls of a message
RECURSIVE Searches(_)
Searches(tool_calls) ==
  IF tool_calls = <<>> THEN 0
  ELSE (IF Head(tool_calls) = "web_search" THEN 1 ELSE 0) + Searches(Tail(tool_calls))

\* One turn of _call_ollama_with_tools: the request is sent and the answer
\* is handled up to the next request or the end of the call.
Post(reply) ==
  /\ llm.pc = "post"
  /\ reply \in ToolReplies
  /\ LET l == [llm EXCEPT !.requests = @ + 1]
     IN llm' =
          IF reply.kind \in {"status", "exception"}
            THEN [l EXCEPT !.pc = "returned", !.result = None]
          ELSE IF reply.kind = "notjson"
            THEN (IF reply.caught THEN [l EXCEPT !.pc = "returned", !.result = None]
                  ELSE [l EXCEPT !.pc = "raised"])
          ELSE IF reply.kind = "malformed"
            THEN [l EXCEPT !.pc = "raised"]
          ELSE IF reply.tool_calls # <<>>
            THEN LET m == [l EXCEPT !.messages = @ + 1 + Searches(reply.tool_calls),
                                    !.tool_turns = @ + 1]
                 IN IF MoreTurns(m)
                      THEN [m EXCEPT !.turn = @ + 1]
                      ELSE [m EXCEPT !.turn = @ + 1, !.pc = "returned", !.result = None]
          ELSE [l EXCEPT !.pc = "returned", !.result = model_parse_json_response(reply)]
  /\ UNCHANGED <<det, proc, pool, pipeline, catalog, disk, pc, args, memory, flush, budget, hist>>

\* ------------------------------------------------------ external answers
\* what spawn_server_via_runtime returns for a failed spawn: (error, error_code)
ErrorReplies ==
  {<< <<wRequires, wCredentials, wAPI_KEY>>, "CREDENTIALS_REQUIRED" >>,
   << <<wAPI_KEY, wEnvironment, wVariable, wRequired>>, "" >>,
   << <<wToken, wEnvironment, wVariable, wRequired>>, "" >>,
   << <<wSERVER, wERROR, wKEY>>, "SPAWN_FAILED" >>,
   << <<wSpawn, wTimeout, wSeconds>>, "TIMEOUT" >>,
   << <<>>, "UNKNOWN" >>}

\* what it returns when requests.post raises a RequestException
RequestErrors == {<< <<wConnection, wRefused>>, "REQUEST_ERROR" >>}

ToolLists == {<<>>, <<[name |-> "echo", description |-> "Echo"]>>}

\* spawn_server_via_runtime(registry_id, config)
SpawnResponses(config) ==
  {[success |-> TRUE, tools |-> t, transport |-> config.transport] : t \in ToolLists}
  \cup {[success |-> FALSE, error |-> e[1], error_code |-> e[2], tools |-> <<>>] :
          e \in ErrorReplies}

\* its answers to a request that did not get through
RequestErrorResponses ==
  {[success |-> FALSE, error |-> e[1], error_code |-> e[2], tools |-> <<>>] :
     e \in RequestErrors}

AllSpawnResponses(config) == SpawnResponses(config) \cup RequestErrorResponses

\* clean_server_with_tools / clean_server_from_repo: CleanedMetadata or None
LLMResults ==
  {None, Some([name |-> "Echo Utilities", description |-> "Echoes its input back.",
               tags |-> <<"echo", "testing">>])}

\* ------------------------------------------------------ what it returns
StringFields ==
  {"id", "registryId", "name", "slug", "description", "transport", "source",
   "compiled_at", "working_transport"}

\* "not v" for the value v of field k of a CompiledServer
FalsyField(k, v) ==
  IF k \in StringFields THEN v = ""
  ELSE IF k \in {"tags", "tools", "vars_required"} THEN v = <<>>
  ELSE IF k = "tool_count" THEN v = 0
  ELSE IF k = "spawn" THEN DOMAIN v = {}
  ELSE ~v

KeepFields == {"id", "registryId", "name", "description", "tags", "spawn_failed"}

\* CompiledServer.to_dict
to_dict(full) ==
  [k \in {f \in DOMAIN full : ~FalsyField(f, full[f]) \/ f \in KeepFields} |-> full[k]]

NoRet == [compiled |-> None, failed |-> None, success |-> FALSE, msg |-> ""]

\* the state of process_server_with_model between two external calls;
\* calls, spawn_ok and spawned (the configs given to
\* spawn_server_via_runtime so far) are observation only, and so are, for a
\* record that is watched, failed_spawn (the error and error_code of the
\* answer of the most recent spawn that did not succeed with a tool) and
\* final_calls (the calls of clean_server_from_repo made after the loop)
ProcIdle ==
  [pc |-> "idle", server |-> <<>>, spawn_configs |-> <<>>, idx |-> 0,
   transports_tried |-> <<>>, last_error |-> <<>>, last_error_code |-> "",
   result |-> [success |-> FALSE], vars_required |-> <<>>, ret |-> NoRet,
   calls |-> 0, spawn_ok |-> FALSE, spawned |-> <<>>,
   watch |-> FALSE, failed_spawn |-> None, final_calls |-> 0]

ProcNew(server) == [ProcIdle EXCEPT !.pc = "start", !.server = server]
ProcWatch(server) == [ProcNew(server) EXCEPT !.watch = TRUE]

WorkingTransport_first(p) == p.spawn_configs[1].transport
\* transport = config.get("transport", "") of the config of this iteration
WorkingTransport(p) == p.spawn_configs[p.idx].transport

\* CompiledServer(...) of the two returns inside the loop
CompiledOf(p, llm_result, tools, spawn_failed, vars_required) ==
  [id |-> p.server.registryId, registryId |-> p.server.registryId,
   name |-> llm_result.name, slug |-> Get(p.server, "slug", ""),
   description |-> llm_result.description, tags |-> llm_result.tags,
   transport |-> WorkingTransport(p), tools |-> tools, tool_count |-> Len(tools),
   spawn |-> p.spawn_configs[p.idx], source |-> Get(p.server, "source", ""),
   compiled_at |-> "now", working_transport |-> WorkingTransport(p),
   spawn_failed |-> spawn_failed, vars_required |-> vars_required]

FailedOf_original(p, llm_result) ==
  [id |-> p.server.registryId, registryId |-> p.server.registryId,
   name |-> Get(p.server, "name", ""),
   description |-> Get(p.server, "description", ""),
   tags |-> <<>>,
   error |-> p.last_error, error_code |-> p.last_error_code,
   transports_tried |-> p.transports_tried, failed_at |-> "now", retryable |-> FALSE]

\* FailedServer(...).to_dict() of the return after the loop
FailedOf(p, llm_result) ==
  [id |-> p.server.registryId, registryId |-> p.server.registryId,
   name |-> IF llm_result # None THEN llm_result[1].name ELSE Get(p.server, "name", ""),
   description |-> IF llm_result # None THEN llm_result[1].description
                   ELSE Get(p.server, "description", ""),
   tags |-> IF llm_result # None THEN llm_result[1].tags ELSE <<>>,
   error |-> p.last_error, error_code |-> p.last_error_code,
   transports_tried |-> p.transports_tried, failed_at |-> "now", retryable |-> FALSE]

Return(p, c, f, success, msg) ==
  [p EXCEPT !.pc = "returned",
            !.ret = [compiled |-> c, failed |-> f, success |-> success, msg |-> msg]]

Advance_skip(p) ==
  IF p.idx + 1 < Len(p.spawn_configs)
    THEN [p EXCEPT !.pc = "spawn", !.idx = @ + 2]
    ELSE [p EXCEPT !.pc = "gen_final"]

Advance_stay(p) == [p EXCEPT !.pc = "spawn"]
\* the next iteration of "for config in spawn_configs", or the code after the loop
Advance(p) ==
  IF p.idx < Len(p.spawn_configs)
    THEN [p EXCEPT !.pc = "spawn", !.idx = @ + 1]
    ELSE [p EXCEPT !.pc = "gen_final"]

OnError_break(p) ==
  LET error_msg == Get(p.result, "error", <<>>)
      error_code == Get(p.result, "error_code", "")
      vars_required == detect_required_vars(error_msg)
      q == [p EXCEPT !.last_error = error_msg, !.last_error_code = error_code,
                     !.vars_required = vars_required]
  IN IF vars_required # <<>> THEN [q EXCEPT !.pc = "gen_repo"]
     ELSE IF p.result.success THEN [q EXCEPT !.pc = "gen_final"] ELSE Advance(q)

OnError_hide(p) ==
  LET error_msg == Get(p.result, "error", <<>>)
      error_code == Get(p.result, "error_code", "")
      vars_required == detect_required_vars(error_msg)
      q == IF error_code \in {"TIMEOUT", "REQUEST_ERROR"}
             THEN [p EXCEPT !.vars_required = vars_required]
             ELSE [p EXCEPT !.last_error = error_msg, !.last_error_code = error_code,
                            !.vars_required = vars_required]
  IN IF vars_required # <<>> THEN [q EXCEPT !.pc = "gen_repo"] ELSE Advance(q)

\* from "error_msg = result.get("error", "")" to the next external call
OnError(p) ==
  LET error_msg == Get(p.result, "error", <<>>)
      error_code == Get(p.result, "error_code", "")
      vars_required == detect_required_vars(error_msg)
      q == [p EXCEPT !.last_error = error_msg, !.last_error_code = error_code,
                     !.vars_required = vars_required]
  IN IF vars_required # <<>> THEN [q EXCEPT !.pc = "gen_repo"] ELSE Advance(q)

\* process_server_with_model, from its entry to its first external call
ProcStart ==
  /\ proc.pc = "start"
  /\ LET spawn_configs == get_spawn_configs(proc.server)
     IN proc' = [proc EXCEPT !.spawn_configs = spawn_configs,
                             !.idx = IF spawn_configs = <<>> THEN 0 ELSE 1,
                             !.pc = IF spawn_configs = <<>> THEN "gen_final" ELSE "spawn"]
  /\ UNCHANGED batchvars

\* spawn_server_via_runtime answers with result
Spawn(result) ==
  /\ proc.pc = "spawn"
  /\ result \in AllSpawnResponses(proc.spawn_configs[proc.idx])
  /\ LET p == [proc EXCEPT !.transports_tried =
                               Append(@, proc.spawn_configs[proc.idx].transport),
                           !.result = result, !.calls = @ + 1,
                           !.spawned = Append(@, proc.spawn_configs[proc.idx]),
                           !.spawn_ok = result.success,
                           !.failed_spawn =
                               IF (result.success /\ Get(result, "tools", <<>>) # <<>>)
                                    \/ ~proc.watch
                                 THEN @
                                 ELSE Some([error |-> Get(result, "error", <<>>),
                                            error_code |-> Get(result, "error_code", "")])]
     IN proc' = IF result.success /\ Get(result, "tools", <<>>) # <<>>
                  THEN [p EXCEPT !.pc = "gen_tools"]
                  ELSE OnError(p)
  /\ UNCHANGED batchvars

\* clean_server_with_tools answers with llm_result
GenTools(llm_result) ==
  /\ proc.pc = "gen_tools"
  /\ llm_result \in LLMResults
  /\ LET p == [proc EXCEPT !.calls = @ + 1]
     IN proc' = IF llm_result # None
                  THEN Return(p, Some(to_dict(CompiledOf(p, llm_result[1], p.result.tools,
                                                         FALSE, <<>>))),
                              None, TRUE, "SUCCESS")
                  ELSE OnError(p)
  /\ UNCHANGED batchvars

GenRepo_break(llm_result) ==
  /\ proc.pc = "gen_repo"
  /\ llm_result \in LLMResults
  /\ LET p == [proc EXCEPT !.calls = @ + 1]
     IN proc' = IF llm_result # None
                  THEN Return(p, Some(to_dict(CompiledOf(p, llm_result[1], <<>>,
                                                         TRUE, p.vars_required))),
                              None, TRUE, "CREDENTIALS")
                  ELSE [p EXCEPT !.pc = "gen_final"]
  /\ UNCHANGED batchvars

\* clean_server_from_repo, called for a spawn that asks for credentials,
\* answers with llm_result
GenRepo(llm_result) ==
  /\ proc.pc = "gen_repo"
  /\ llm_result \in LLMResults
  /\ LET p == [proc EXCEPT !.calls = @ + 1]
     IN proc' = IF llm_result # None
                  THEN Return(p, Some(to_dict(CompiledOf(p, llm_result[1], <<>>,
                                                         TRUE, p.vars_required))),
                              None, TRUE, "CREDENTIALS")
                  ELSE Advance(p)
  /\ UNCHANGED batchvars

GenFinal_store(llm_result) ==
  /\ proc.pc = "gen_final"
  /\ llm_result \in LLMResults
  /\ LET p == [proc EXCEPT !.calls = @ + 1,
                           !.final_calls = IF proc.watch THEN @ + 1 ELSE @]
     IN /\ proc' = Return(p, None, Some(FailedOf(p, llm_result)), FALSE, "FAILED")
        /\ failed' = Put(failed, 1, FailedOf(p, llm_result))
  /\ UNCHANGED <<pipeline, catalog, progressFile, compiledFile, failedFile, pc, args,
                 servers, compiled, progress, batch, process_args, nextq, running,
                 checkpoint_counter, flush, budget, hist, pool, llm, det>>

\* clean_server_from_repo after the loop answers with llm_result
GenFinal(llm_result) ==
  /\ proc.pc = "gen_final"
  /\ llm_result \in LLMResults
  /\ LET p == [proc EXCEPT !.calls = @ + 1,
                           !.final_calls = IF proc.watch THEN @ + 1 ELSE @]
     IN proc' = Return(p, None, Some(FailedOf(p, llm_result)), FALSE, "FAILED")
  /\ UNCHANGED batchvars

NextProc ==
  \/ ProcStart
  \/ \E result \in (IF proc.pc = "spawn" THEN SpawnResponses(proc.spawn_configs[proc.idx])
                      ELSE {}) : Spawn(result)
  \/ \E llm_result \in LLMResults : GenTools(llm_result)
  \/ \E llm_result \in LLMResults : GenRepo(llm_result)
  \/ \E llm_result \in LLMResults : GenFinal(llm_result)

\* the same worker when the runtime may also be out of reach
NextOutcome ==
  \/ NextProc
  \/ \E result \in RequestErrorResponses : Spawn(result)

\* ------------------------------------------------------- initial states
\* nothing on disk, no process started yet
DiskEmpty ==
  /\ progressFile = NoProgressFile
  /\ compiledFile = NoCompiledFile
  /\ failedFile = NoFailedFile

MemoryOff ==
  /\ pc = "off"
  /\ args = NoArgs
  /\ servers = <<>>
  /\ compiled = EmptyMap
  /\ failed = EmptyMap
  /\ progress = NewProgress
  /\ batch = <<>>
  /\ process_args = <<>>
  /\ nextq = 1
  /\ running = {}
  /\ checkpoint_counter = 0
  /\ flush = NoFlush
  /\ hist = HistInit

BatchOff == DiskEmpty /\ MemoryOff

InitWith(n, runsMCP, runsModel) ==
  /\ pipeline \in {"mcp", "model"}
  /\ catalog = [i \in 1..n |-> i]
  /\ budget = IF pipeline = "mcp" THEN runsMCP ELSE runsModel
  /\ BatchOff
  /\ proc = ProcIdle
  /\ pool = PoolOff
  /\ llm = LLMIdle
  /\ det = DetIdle

Init == InitWith(NumServers, MaxRunsMCP, MaxRunsModel)
InitSmall == InitWith(SmallCatalog, SmallRunsMCP, SmallRunsModel)

\* the documents a model-compiler run with --limit 1 leaves when it has
\* compiled the first of n records and exited
DiskAfterFirst(n) ==
  /\ progressFile = Complete([NewProgress EXCEPT !.processed = 1, !.total = n,
                                                 !.last_processed_id = 1,
                                                 !.success_count = 1])
  /\ compiledFile = Complete([servers |-> Put(EmptyMap, 1, ResultOK(1).compiled[1]),
                              successCount |-> 1, failedCount |-> 0, retryCount |-> 0])
  /\ failedFile = Complete([servers |-> EmptyMap])

\* one process over a catalog longer than the pipeline's list of backends:
\* the mcp-compiler on an empty disk, the model-compiler on an empty disk or
\* on what an earlier run left
InitLong ==
  /\ \/ /\ pipeline = "mcp"
        /\ catalog = [i \in 1..LongCatalogMCP |-> i]
        /\ budget = SmallRunsMCP
        /\ DiskEmpty
     \/ /\ pipeline = "model"
        /\ catalog = [i \in 1..LongCatalogModel |-> i]
        /\ budget = SmallRunsModel
        /\ DiskEmpty \/ DiskAfterFirst(LongCatalogModel)
  /\ MemoryOff
  /\ proc = ProcIdle
  /\ pool = PoolOff
  /\ llm = LLMIdle
  /\ det = DetIdle

\* The documents of a catalog of n >= 3 records in which record 3 was
\* compiled by an earlier run and the last run was one with --limit 1 that
\* compiled record 1.  mcp-compiler: the earlier run found records 1 and 2
\* failed; the last run loaded the compiled document, ran to its end and
\* wrote an empty failed map.  model-compiler: the earlier run compiled
\* records 1 and 3 and found record 2 failed; the last run was killed in
\* its final flush when only the progress document was written.
DiskAhead(n) ==
  /\ progressFile = Complete([NewProgress EXCEPT !.processed = 1, !.total = n,
                                                 !.last_processed_id = 1,
                                                 !.success_count = 1])
  /\ compiledFile =
       Complete([servers |-> Put(Put(EmptyMap, 1, ResultOK(1).compiled[1]),
                                 3, ResultOK(3).compiled[1]),
                 successCount |-> IF pipeline = "mcp" THEN 1 ELSE 2,
                 failedCount |-> IF pipeline = "mcp" THEN 0 ELSE 1,
                 retryCount |-> 0])
  /\ failedFile =
       Complete([servers |-> IF pipeline = "mcp" THEN EmptyMap
                             ELSE Put(EmptyMap, 2, [id |-> 2, retryable |-> FALSE])])

\* The documents of a catalog of n >= 3 records after a run in which every
\* record failed, followed by a run with --limit 1 (record 1 failed again)
\* that was killed in its final flush when only the progress document was
\* written: the compiled and the failed document are those of the first run.
DiskStale(n) ==
  /\ progressFile = Complete([NewProgress EXCEPT !.processed = 1, !.total = n,
                                                 !.last_processed_id = 1,
                                                 !.failed_count = 1])
  /\ compiledFile =
       Complete([servers |-> EmptyMap, successCount |-> 0, failedCount |-> n,
                 retryCount |-> 0])
  /\ failedFile =
       Complete([servers |-> [i \in 1..n |-> [id |-> i, retryable |-> FALSE]]])

\* one process started on the documents of DiskAhead or of DiskStale
InitResume ==
  /\ pipeline \in {"mcp", "model"}
  /\ catalog = [i \in 1..NumServers |-> i]
  /\ budget = 1
  /\ (DiskAhead(NumServers) \/ DiskStale(NumServers))
  /\ MemoryOff
  /\ proc = ProcIdle
  /\ pool = PoolOff
  /\ llm = LLMIdle
  /\ det = DetIdle

\* one process over a catalog longer than the pool of the mcp pipeline and
\* than a chunk of the model pipeline, nothing on disk, the workers looked at
InitPool ==
  /\ \/ /\ pipeline = "mcp"
        /\ catalog = [i \in 1..LongCatalogMCP |-> i]
     \/ /\ pipeline = "model"
        /\ catalog = [i \in 1..LongCatalogModel |-> i]
  /\ budget = 1
  /\ DiskEmpty
  /\ MemoryOff
  /\ proc = ProcIdle
  /\ pool = PoolWatch
  /\ llm = LLMIdle
  /\ det = DetIdle

\* one worker of the mcp pipeline about to process one catalog record
InitProc ==
  /\ pipeline = "mcp"
  /\ catalog = <<>>
  /\ budget = 0
  /\ BatchOff
  /\ proc \in {ProcNew(server) : server \in ServerRecords}
  /\ pool = PoolOff
  /\ llm = LLMIdle
  /\ det = DetIdle

\* one watched worker about to process a record with zero to three configs
InitOutcome ==
  /\ pipeline = "mcp"
  /\ catalog = <<>>
  /\ budget = 0
  /\ BatchOff
  /\ proc \in {ProcWatch(server) : server \in OutcomeRecords}
  /\ pool = PoolOff
  /\ llm = LLMIdle
  /\ det = DetIdle

WorkerCatalog == 1       \* records in the input catalog (SpecWorker)

\* records of one package, no remote endpoint and no image
WorkerRecords ==
  {server \in OutcomeRecords :
     Len(server.packages) = 1 /\ server.remoteUrl = NoUrl /\ server.image = ""}

\* the mcp-compiler started once on an empty disk, and one of its workers
\* about to process a record
InitWorker ==
  /\ pipeline = "mcp"
  /\ catalog = [i \in 1..WorkerCatalog |-> i]
  /\ budget = 1
  /\ BatchOff
  /\ proc \in {ProcWatch(server) : server \in WorkerRecords}
  /\ pool = PoolOff
  /\ llm = LLMIdle
  /\ det = DetIdle

\* one worker about to process a record that names remote endpoints
InitRemote ==
  /\ pipeline = "mcp"
  /\ catalog = <<>>
  /\ budget = 0
  /\ BatchOff
  /\ proc \in {ProcNew(server) : server \in RemoteRecords}
  /\ pool = PoolOff
  /\ llm = LLMIdle
  /\ det = DetIdle

Stopped == pc \in {"off", "exited", "crashed", "aborted"}

\* memory of a process that is gone
Forget ==
  /\ servers' = <<>>
  /\ compiled' = EmptyMap
  /\ failed' = EmptyMap
  /\ progress' = NewProgress
  /\ batch' = <<>>
  /\ process_args' = <<>>
  /\ nextq' = 1
  /\ running' = {}
  /\ checkpoint_counter' = 0
  /\ flush' = NoFlush

\* --------------------------------------------------- mcp-compiler: main
\* main(): MCPCompiler() (loads the compiled document), load_servers(),
\* then run_phase1 / run_phase2 / run_all by --phase.
Main(resume, limit, phase) ==
  /\ pipeline = "mcp"
  /\ Stopped
  /\ budget > 0
  /\ budget' = budget - 1
  /\ args' = [resume |-> resume, limit |-> limit, phase |-> phase,
               workers |-> NUM_BACKENDS]     \* max_workers = num_models
  /\ hist' = HistStart
  /\ progress' = NewProgress
  /\ failed' = EmptyMap
  /\ batch' = <<>>
  /\ process_args' = <<>>
  /\ nextq' = 1
  /\ running' = {}
  /\ checkpoint_counter' = 0
  /\ flush' = NoFlush
  /\ IF compiledFile.st = "truncated"
       THEN \* json.load raises in load_compiled
            /\ pc' = "aborted"
            /\ compiled' = EmptyMap
            /\ servers' = <<>>
       ELSE /\ compiled' = IF compiledFile.st = "complete"
                             THEN compiledFile.doc.servers ELSE EmptyMap
            /\ servers' = catalog
            /\ pc' = IF phase = "2" THEN "phase2" ELSE "phase1"
  /\ UNCHANGED <<det, llm, proc, pool, pipeline, catalog, disk>>

AfterPhase1 == IF args.phase = "all" THEN "phase2" ELSE "exited"

\* process_args = [(server, idx % num_models, backends) for idx, server in
\* enumerate(servers_to_process)] and tasks.append((model, backends[i %
\* len(backends)])): the backend index of every position of the list given
\* (positions from 1 here, idx = k - 1).
AssignBackends_from1(list, num_models) ==
  [k \in 1..Len(list) |-> k % num_models]

AssignBackends(list, num_models) ==
  [k \in 1..Len(list) |-> (k - 1) % num_models]

FirstRunning(n) == 1..Min(NUM_BACKENDS, n)
SeqIds(seq) == {seq[i] : i \in 1..Len(seq)}

\* run_phase1, from its entry to the submission of the batch to the pool
RunPhase1 ==
  /\ pipeline = "mcp"
  /\ pc = "phase1"
  /\ IF args.resume /\ progressFile.st = "truncated"
       THEN \* json.load raises in load_progress
            /\ pc' = "aborted"
            /\ hist' = hist
            /\ pool' = pool
            /\ Forget
       ELSE LET prog1 == IF args.resume /\ progressFile.st = "complete"
                           THEN progressFile.doc ELSE progress
                stp == ServersToProcess(servers, args.resume,
                                        prog1.last_processed_id, args.limit, compiled)
                prog2 == [prog1 EXCEPT !.total = Len(servers), !.phase = 1]
            IN /\ progress' = prog2
               /\ IF stp = <<>>
                    THEN /\ pc' = AfterPhase1
                         /\ hist' = hist
                         /\ UNCHANGED <<batch, process_args, nextq, running, checkpoint_counter,
                                        pool>>
                    ELSE /\ pc' = "loop"
                         /\ batch' = stp
                         /\ process_args' = AssignBackends(stp, NUM_BACKENDS)
                         /\ running' = FirstRunning(Len(stp))
                         /\ pool' = PoolStart(pool, Len(stp), FirstRunning(Len(stp)))
                         /\ nextq' = Min(NUM_BACKENDS, Len(stp)) + 1
                         /\ checkpoint_counter' = 0
                         /\ hist' = [hist EXCEPT !.flushLog = <<>>, !.sinceFlush = 0]
               /\ UNCHANGED <<servers, compiled, failed, flush>>
  /\ UNCHANGED <<det, llm, proc, pipeline, catalog, disk, args, budget>>


AllHandled(q, r) == q > Len(batch) /\ r = {}
Handled(q, r) == (1..(q - 1)) \ r

\* if checkpoint_counter >= CHECKPOINT_INTERVAL
CheckpointDue(counter) == counter >= CHECKPOINT_INTERVAL

StartFlush(from) ==
  [file |-> IF from = "retry" THEN 2 ELSE 1, open |-> FALSE, from |-> from]

\* One iteration of "for future in as_completed(futures)" of run_phase1
\* (pc = "loop") or run_phase2 (pc = "loop2"): the task at position i has
\* finished with r, the worker takes the next queued task, the result is
\* handled.
HandleResult(i, r) ==
  /\ pipeline = "mcp"
  /\ pc \in {"loop", "loop2"}
  /\ i \in running
  /\ r \in WorkerResults(batch[i])
  /\ LET registry_id == batch[i]
         running2 == (running \ {i}) \cup (IF nextq <= Len(batch) THEN {nextq} ELSE {})
         nextq2 == IF nextq <= Len(batch) THEN nextq + 1 ELSE nextq
         done == AllHandled(nextq2, running2)
         ok == r.success /\ ~r.compiled[1].vars_required
         nhandled == Cardinality(Handled(nextq2, running2))
     IN
     /\ running' = running2
     /\ nextq' = nextq2
     /\ pool' = Started(pool, running2 \ running)
     /\ compiled' = IF ~r.raises /\ r.compiled # None
                      THEN Put(compiled, registry_id, r.compiled[1]) ELSE compiled
     /\ IF pc = "loop"
          THEN /\ failed' = IF ~r.raises /\ r.failed # None
                              THEN Put(failed, registry_id, r.failed[1]) ELSE failed
               /\ progress' =
                    IF r.raises
                      THEN [progress EXCEPT !.processed = @ + 1]
                      ELSE [progress EXCEPT
                              !.success_count = IF r.compiled # None /\ ok THEN @ + 1 ELSE @,
                              !.failed_count = IF (r.compiled # None /\ ~ok) \/ r.failed # None
                                                 THEN @ + 1 ELSE @,
                              !.processed = @ + 1,
                              !.last_processed_id = registry_id]
               /\ checkpoint_counter' = IF r.raises THEN checkpoint_counter
                                        ELSE checkpoint_counter + 1
               /\ IF ~r.raises /\ CheckpointDue(checkpoint_counter + 1)
                    THEN /\ pc' = "flush"
                         /\ flush' = StartFlush("checkpoint")
                         /\ hist' = [hist EXCEPT
                                       !.sinceFlush = @ + 1,
                                       !.flushLog = Append(@, [at |-> nhandled, final |-> FALSE])]
                    ELSE IF done
                      THEN /\ pc' = "flush"
                           /\ flush' = StartFlush("final")
                           /\ hist' = [hist EXCEPT
                                         !.sinceFlush = @ + 1,
                                         !.raised = @ \/ r.raises,
                                         !.flushLog = Append(@, [at |-> nhandled, final |-> TRUE])]
                      ELSE /\ pc' = "loop"
                           /\ flush' = flush
                           /\ hist' = [hist EXCEPT
                                         !.sinceFlush = @ + 1,
                                         !.raised = @ \/ r.raises]
          ELSE /\ failed' = IF ~r.raises /\ r.failed # None
                              THEN Put(failed, registry_id,
                                       [r.failed[1] EXCEPT !.retryable = FALSE])
                              ELSE failed
               /\ progress' =
                    IF r.raises \/ r.compiled = None
                      THEN progress
                      ELSE IF ok
                        THEN [progress EXCEPT !.success_count = @ + 1,
                                              !.retry_count = @ + 1]
                        ELSE [progress EXCEPT !.failed_count = @ + 1]
               /\ checkpoint_counter' = checkpoint_counter
               /\ hist' = [hist EXCEPT !.raised = @ \/ r.raises]
               /\ IF done
                    THEN /\ pc' = "flush"
                         /\ flush' = StartFlush("retry")
                    ELSE /\ pc' = "loop2"
                         /\ flush' = flush
  /\ UNCHANGED <<det, llm, proc, pipeline, catalog, disk, args, servers, batch, process_args, budget>>

\* servers_to_retry of run_phase2
RECURSIVE RetrySelect(_, _)
RetrySelect(seq, f) ==
  IF seq = <<>> THEN <<>>
  ELSE IF Head(seq) \in DOMAIN f /\ f[Head(seq)].retryable
         THEN <<Head(seq)>> \o RetrySelect(Tail(seq), f)
         ELSE RetrySelect(Tail(seq), f)

RECURSIVE DelAll(_, _)
DelAll(f, seq) == IF seq = <<>> THEN f ELSE DelAll(Del(f, Head(seq)), Tail(seq))

\* run_phase2, from its entry to the submission of the retries to the pool
RunPhase2 ==
  /\ pipeline = "mcp"
  /\ pc = "phase2"
  /\ LET servers_to_retry == LimitSlice(RetrySelect(servers, failed), args.limit)
     IN IF servers_to_retry = <<>>
          THEN /\ pc' = "exited"
               /\ UNCHANGED <<failed, batch, process_args, nextq, running, hist, pool>>
          ELSE /\ pc' = "loop2"
               /\ failed' = DelAll(failed, servers_to_retry)
               /\ batch' = servers_to_retry
               /\ process_args' = AssignBackends(servers_to_retry, NUM_BACKENDS)
               /\ running' = FirstRunning(Len(servers_to_retry))
               /\ pool' = PoolStart(pool, Len(servers_to_retry),
                                    FirstRunning(Len(servers_to_retry)))
               /\ nextq' = Min(NUM_BACKENDS, Len(servers_to_retry)) + 1
               /\ hist' = hist
  /\ UNCHANGED <<det, llm, proc, pipeline, catalog, disk, args, servers, compiled, progress,
                 checkpoint_counter, flush, budget>>

\* -------------------------------------------------------------- flushes
\* with open(PATH, "w") as f: the file is emptied when it is opened
FlushOpen ==
  /\ pc = "flush"
  /\ ~flush.open
  /\ flush' = [flush EXCEPT !.open = TRUE]
  /\ progressFile' = IF flush.file = 1 THEN Truncated(NoProgressFile) ELSE progressFile
  /\ compiledFile' = IF flush.file = 2 THEN Truncated(NoCompiledFile) ELSE compiledFile
  /\ failedFile' = IF flush.file = 3 THEN Truncated(NoFailedFile) ELSE failedFile
  /\ UNCHANGED <<det, llm, proc, pool, pipeline, catalog, pc, args, memory, budget, hist>>

\* json.dump(...) and the close of the file; after the third document the
\* flush is over and the caller goes on
FlushWrite ==
  /\ pc = "flush"
  /\ flush.open
  /\ progressFile' = IF flush.file = 1 THEN Complete(ProgressDoc) ELSE progressFile
  /\ compiledFile' = IF flush.file = 2 THEN Complete(CompiledDoc) ELSE compiledFile
  /\ failedFile' = IF flush.file = 3 THEN Complete(FailedDoc) ELSE failedFile
  /\ IF flush.file < 3
       THEN /\ flush' = [flush EXCEPT !.file = @ + 1, !.open = FALSE]
            /\ UNCHANGED <<pc, checkpoint_counter, hist>>
       ELSE /\ hist' = [hist EXCEPT
                          !.flushed = TRUE, !.sinceFlush = 0,
                          !.flushLog = IF flush.from = "checkpoint" /\ AllHandled(nextq, running)
                                         THEN Append(@, [at |-> Len(batch), final |-> TRUE])
                                         ELSE @]
            /\ IF flush.from = "checkpoint"
                 THEN /\ checkpoint_counter' = 0
                      /\ IF AllHandled(nextq, running)
                           THEN /\ pc' = "flush"
                                /\ flush' = StartFlush("final")
                           ELSE /\ pc' = IF pipeline = "mcp" THEN "loop" ELSE "mloop"
                                /\ flush' = NoFlush
                 ELSE /\ checkpoint_counter' = checkpoint_counter
                      /\ flush' = NoFlush
                      /\ pc' = IF flush.from = "final" /\ pipeline = "mcp"
                                 THEN AfterPhase1 ELSE "exited"
  /\ UNCHANGED <<det, llm, proc, pool, pipeline, catalog, args, servers, compiled, failed, progress, batch, process_args,
                 nextq, running, budget>>

\* a flush has touched a document and has not finished the last one
MidFlush == pc = "flush" /\ (flush.open \/ flush.file > StartFlush(flush.from).file)

\* The process is killed (signal, power loss, uncaught exception): its
\* memory is gone, the documents stay as they are.
Crash ==
  /\ ~Stopped
  /\ pc' = "crashed"
  /\ hist' = HistCrash(MidFlush)
  /\ Forget
  /\ UNCHANGED <<det, llm, proc, pool, pipeline, catalog, disk, args, budget>>


\* ---------------------------------------------------------------- locks
\* compiled_lock, failed_lock, progress_lock: the lock of each structure
LockOf ==
  [compiled |-> "compiled_lock", failed |-> "failed_lock", progress |-> "progress_lock"]

\* one access of the mcp-compiler: a structure is mutated or read, or a
\* document is written, while the locks of held are held
Op(op, what, held) == [op |-> op, what |-> what, held |-> held]

\* run_phase1 and run_phase2 before they submit their batch: progress.total,
\* phase and started_at (and the progress loaded by --resume), and
\* "del self.failed[registry_id]", none inside a with statement
SetupOps(phase) ==
  IF phase = 1 THEN {Op("mutate", "progress", {})} ELSE {Op("mutate", "failed", {})}

HandleOps_bare(r, at) ==
  IF r.raises
    THEN (IF at = "loop" THEN {Op("mutate", "progress", {"progress_lock"})} ELSE {})
    ELSE (IF r.compiled # None
            THEN {Op("mutate", "compiled", {}),
                  Op("mutate", "progress", {"progress_lock"})}
            ELSE {})
         \cup (IF r.failed # None THEN {Op("mutate", "failed", {"failed_lock"})} ELSE {})
         \cup (IF at = "loop" THEN {Op("mutate", "progress", {"progress_lock"})} ELSE {})

\* the handling of one result in the loop of run_phase1 (at = "loop") or of
\* run_phase2 (at = "loop2"): each assignment with the with statement around it
HandleOps(r, at) ==
  IF r.raises
    THEN (IF at = "loop" THEN {Op("mutate", "progress", {"progress_lock"})} ELSE {})
    ELSE (IF r.compiled # None
            THEN {Op("mutate", "compiled", {"compiled_lock"}),
                  Op("mutate", "progress", {"progress_lock"})}
            ELSE {})
         \cup (IF r.failed # None THEN {Op("mutate", "failed", {"failed_lock"})} ELSE {})
         \cup (IF at = "loop" THEN {Op("mutate", "progress", {"progress_lock"})} ELSE {})

\* the structure a document belongs to, by its place in a flush
StructureOf == <<"progress", "compiled", "failed">>

SaveOps_outside(file) ==
  IF file = 1
    THEN {Op("mutate", "progress", {"progress_lock"}),
          Op("read", "progress", {"progress_lock"}), Op("write", "progress", {})}
  ELSE IF file = 2
    THEN {Op("read", "compiled", {"compiled_lock"}), Op("read", "progress", {"compiled_lock"}),
          Op("read", "failed", {"compiled_lock"}), Op("write", "compiled", {})}
  ELSE {Op("read", "failed", {"failed_lock"}), Op("write", "failed", {})}

\* save_progress, save_compiled, save_failed: what each reads for its
\* document, and the write of the document, with the with statement around
\* them
SaveOps(file) ==
  IF file = 1
    THEN {Op("mutate", "progress", {"progress_lock"}),
          Op("read", "progress", {"progress_lock"}),
          Op("write", "progress", {"progress_lock"})}
  ELSE IF file = 2
    THEN {Op("read", "compiled", {"compiled_lock"}), Op("read", "progress", {"compiled_lock"}),
          Op("read", "failed", {"compiled_lock"}), Op("write", "compiled", {"compiled_lock"})}
  ELSE {Op("read", "failed", {"failed_lock"}), Op("write", "failed", {"failed_lock"})}

\* ------------------------------------------------ model-compiler: main
\* main(): ModelCompiler(), load_models(), then run(limit, resume, workers)
ModelMain(resume, limit, workers) ==
  /\ pipeline = "model"
  /\ Stopped
  /\ budget > 0
  /\ budget' = budget - 1
  /\ args' = [resume |-> resume, limit |-> limit, phase |-> "all", workers |-> workers]
  /\ hist' = HistStart
  /\ servers' = catalog
  /\ compiled' = EmptyMap
  /\ failed' = EmptyMap
  /\ progress' = NewProgress
  /\ batch' = <<>>
  /\ process_args' = <<>>
  /\ nextq' = 1
  /\ running' = {}
  /\ checkpoint_counter' = 0
  /\ flush' = NoFlush
  /\ pc' = "run"
  /\ UNCHANGED <<det, llm, proc, pool, pipeline, catalog, disk>>

\* load_progress: what self.progress, self.compiled and self.failed are
\* after it; a document that does not parse ends the loading there
\* (except Exception: return False) and keeps what was assigned before.
LoadedProgress ==
  IF progressFile.st = "complete" THEN progressFile.doc ELSE progress
LoadedCompiled ==
  IF progressFile.st = "complete" /\ compiledFile.st = "complete"
    THEN compiledFile.doc.servers ELSE compiled
LoadedFailed ==
  IF progressFile.st = "complete" /\ compiledFile.st # "truncated"
     /\ failedFile.st = "complete"
    THEN failedFile.doc.servers ELSE failed

\* run, from its entry to the submission of the tasks to the pool
ModelRun ==
  /\ pipeline = "model"
  /\ pc = "run"
  /\ LET prog1 == IF args.resume THEN LoadedProgress ELSE progress
         comp1 == IF args.resume THEN LoadedCompiled ELSE compiled
         fail1 == IF args.resume THEN LoadedFailed ELSE failed
         mtp == ServersToProcess(servers, args.resume, prog1.last_processed_id,
                                 args.limit, comp1)
     IN /\ progress' = [prog1 EXCEPT !.total = Len(servers)]
        /\ compiled' = comp1
        /\ failed' = fail1
        /\ IF mtp = <<>>
             THEN /\ pc' = "exited"
                  /\ UNCHANGED <<batch, process_args, nextq, hist, pool>>
             ELSE /\ pc' = "mloop"
                  /\ batch' = mtp
                  /\ process_args' = AssignBackends(mtp, MODEL_BACKENDS)
                  /\ nextq' = 1
                  /\ pool' = PoolStart(pool, Len(mtp), {})
                  /\ hist' = [hist EXCEPT !.flushLog = <<>>, !.sinceFlush = 0]
  /\ UNCHANGED <<det, llm, proc, pipeline, catalog, disk, args, servers, running, checkpoint_counter, flush, budget>>

\* pool.imap(compile_model_worker, tasks, chunksize=5)
CHUNKSIZE == 5

ChunkOf(k) == (k - 1) \div CHUNKSIZE + 1
NumChunks(n) == (n + CHUNKSIZE - 1) \div CHUNKSIZE

\* the whole chunk c has been worked through: its results are sent back
\* together
ChunkDone(c) ==
  /\ c <= pool.taken
  /\ \A k \in running : ChunkOf(k) # c

ModelWorkerTake_unbounded ==
  /\ pipeline = "model" /\ pool.watch
  /\ pc \in {"mloop", "flush"}
  /\ pool.taken < NumChunks(Len(batch))
  /\ LET k == pool.taken * CHUNKSIZE + 1
     IN /\ running' = running \cup {k}
        /\ pool' = [Started(pool, {k}) EXCEPT !.taken = @ + 1]
  /\ UNCHANGED <<det, llm, proc, pipeline, catalog, disk, pc, args, servers, compiled, failed,
                 progress, batch, process_args, nextq, checkpoint_counter, flush, budget, hist>>

\* A process of Pool(processes=workers) that has nothing to do takes the
\* next chunk of tasks from the queue and begins its first task.
ModelWorkerTake ==
  /\ pipeline = "model" /\ pool.watch
  /\ pc \in {"mloop", "flush"}
  /\ Cardinality(running) < args.workers
  /\ pool.taken < NumChunks(Len(batch))
  /\ LET k == pool.taken * CHUNKSIZE + 1
     IN /\ running' = running \cup {k}
        /\ pool' = [Started(pool, {k}) EXCEPT !.taken = @ + 1]
  /\ UNCHANGED <<det, llm, proc, pipeline, catalog, disk, pc, args, servers, compiled, failed,
                 progress, batch, process_args, nextq, checkpoint_counter, flush, budget, hist>>

\* compile_model_worker returns in the process that runs the task at
\* position k: the process goes on with the next task of its chunk, or has
\* nothing to do when the chunk is worked through.
ModelWorkerDone(k) ==
  /\ pipeline = "model" /\ pool.watch
  /\ pc \in {"mloop", "flush"}
  /\ k \in running
  /\ LET more == k + 1 <= Len(batch) /\ ChunkOf(k + 1) = ChunkOf(k)
     IN /\ running' = (running \ {k}) \cup (IF more THEN {k + 1} ELSE {})
        /\ pool' = Started(pool, IF more THEN {k + 1} ELSE {})
  /\ UNCHANGED <<det, llm, proc, pipeline, catalog, disk, pc, args, servers, compiled, failed,
                 progress, batch, process_args, nextq, checkpoint_counter, flush, budget, hist>>

ModelFails_always(result) == TRUE
\* the else branch of "if result.get("success")"
ModelFails(result) == ~result.success

\* if self.progress.processed % CHECKPOINT_INTERVAL == 0
ModelCheckpointDue(processed, i) == processed % CHECKPOINT_INTERVAL = 0

\* One iteration of "for i, result in enumerate(pool.imap(...))": results
\* come in submission order.
ModelHandleResult(result) ==
  /\ pipeline = "model"
  /\ pc = "mloop"
  /\ nextq <= Len(batch)
  /\ pool.watch => ChunkDone(ChunkOf(nextq))
  /\ result \in ModelWorkerResults(batch[nextq])
  /\ LET model_id == batch[nextq]
         prog2 == [progress EXCEPT
                     !.success_count = IF result.success THEN @ + 1 ELSE @,
                     !.failed_count = IF result.success THEN @ ELSE @ + 1,
                     !.processed = @ + 1,
                     !.last_processed_id = model_id]
         done == nextq + 1 > Len(batch)
     IN
     /\ compiled' = IF result.success THEN Put(compiled, model_id, result.data) ELSE compiled
     /\ failed' = IF ModelFails(result)
                    THEN Put(failed, model_id, [id |-> model_id, retryable |-> FALSE])
                    ELSE failed
     /\ progress' = prog2
     /\ nextq' = nextq + 1
     /\ IF ModelCheckpointDue(prog2.processed, nextq)
          THEN /\ pc' = "flush"
               /\ flush' = StartFlush("checkpoint")
               /\ hist' = [hist EXCEPT
                             !.sinceFlush = @ + 1,
                             !.flushLog = Append(@, [at |-> nextq, final |-> FALSE])]
          ELSE IF done
            THEN /\ pc' = "flush"
                 /\ flush' = StartFlush("final")
                 /\ hist' = [hist EXCEPT
                               !.sinceFlush = @ + 1,
                               !.flushLog = Append(@, [at |-> nextq, final |-> TRUE])]
            ELSE /\ pc' = "mloop"
                 /\ flush' = flush
                 /\ hist' = [hist EXCEPT !.sinceFlush = @ + 1]
  /\ UNCHANGED <<det, llm, proc, pool, pipeline, catalog, disk, args, servers, batch, process_args, running,
                 checkpoint_counter, budget>>

\* ------------------------------------------------------------ behaviours
Limits == 0..MaxLimit

\* --workers: as many processes as backends, or the default
WorkerCounts == {MODEL_BACKENDS, DEFAULT_WORKERS}

Next ==
  \/ \E resume \in BOOLEAN, limit \in Limits, phase \in {"1", "2", "all"} :
        Main(resume, limit, phase)
  \/ RunPhase1
  \/ \E i \in running : \E r \in WorkerResults(batch[i]) :
        HandleResult(i, r)
  \/ RunPhase2
  \/ FlushOpen
  \/ FlushWrite
  \/ Crash
  \/ \E resume \in BOOLEAN, limit \in Limits, workers \in WorkerCounts :
        ModelMain(resume, limit, workers)
  \/ ModelRun
  \/ \E result \in ModelWorkerResults(IF nextq <= Len(batch) THEN batch[nextq] ELSE NoId) :
        ModelHandleResult(result)

Spec == Init /\ [][Next]_vars

\* the mcp-compiler, and process_server_with_model running in one of the
\* threads of its pool: the steps of the two interleave
NextWorker ==
  \/ \E resume \in BOOLEAN, limit \in Limits, phase \in {"1", "2", "all"} :
        Main(resume, limit, phase)
  \/ RunPhase1
  \/ \E i \in running : \E r \in WorkerResults(batch[i]) :
        HandleResult(i, r)
  \/ RunPhase2
  \/ FlushOpen
  \/ FlushWrite
  \/ Crash
  \/ NextOutcome

SpecWorker == InitWorker /\ [][NextWorker]_vars

\* the same program on a smaller catalog with more restarts
SpecSmall == InitSmall /\ [][Next]_vars

\* save_progress / save_compiled / save_failed of a checkpoint raises
\* (OSError of open or of the write): the flush is inside the try block of
\* run_phase1, so the except branch runs and the loop goes on.  A file that
\* was already opened stays as it is.
FlushFail ==
  /\ pipeline = "mcp"
  /\ pc = "flush"
  /\ flush.from = "checkpoint"
  /\ progress' = [progress EXCEPT !.processed = @ + 1]
  /\ IF AllHandled(nextq, running)
       THEN /\ pc' = "flush"
            /\ flush' = StartFlush("final")
            /\ hist' = [hist EXCEPT !.raised = TRUE,
                                    !.flushLog = Append(@, [at |-> Len(batch), final |-> TRUE])]
       ELSE /\ pc' = "loop"
            /\ flush' = NoFlush
            /\ hist' = [hist EXCEPT !.raised = TRUE]
  /\ UNCHANGED <<det, llm, proc, pool, pipeline, catalog, disk, args, servers, compiled, failed, batch, process_args,
                 nextq, running, checkpoint_counter, budget>>

NextIO == Next \/ FlushFail

\* the steps of one process: none is started after it
NextLong ==
  \/ \E resume \in BOOLEAN, limit \in Limits, phase \in {"1", "2", "all"} :
        pc = "off" /\ Main(resume, limit, phase)
  \/ RunPhase1
  \/ \E i \in running : \E r \in WorkerResults(batch[i]) :
        HandleResult(i, r)
  \/ RunPhase2
  \/ FlushOpen
  \/ FlushWrite
  \/ Crash
  \/ \E resume \in BOOLEAN, limit \in Limits, workers \in WorkerCounts :
        pc = "off" /\ ModelMain(resume, limit, workers)
  \/ ModelRun
  \/ \E result \in ModelWorkerResults(IF nextq <= Len(batch) THEN batch[nextq] ELSE NoId) :
        ModelHandleResult(result)

MaxPoolWorkers == 2      \* largest --workers value tried (SpecPool)

\* one process and the steps of the workers of its pool
NextPool ==
  \/ \E resume \in BOOLEAN, limit \in Limits, phase \in {"1", "2", "all"} :
        Main(resume, limit, phase)
  \/ RunPhase1
  \/ \E i \in running : \E r \in WorkerResults(batch[i]) :
        HandleResult(i, r)
  \/ RunPhase2
  \/ FlushOpen
  \/ FlushWrite
  \/ Crash
  \/ \E resume \in BOOLEAN, limit \in Limits, workers \in 1..MaxPoolWorkers :
        ModelMain(resume, limit, workers)
  \/ ModelRun
  \/ ModelWorkerTake
  \/ \E k \in running : ModelWorkerDone(k)
  \/ \E result \in ModelWorkerResults(IF nextq <= Len(batch) THEN batch[nextq] ELSE NoId) :
        ModelHandleResult(result)

SpecPool == InitPool /\ [][NextPool]_vars

\* one response of the generator about to be validated
InitParse ==
  /\ pipeline = "mcp"
  /\ catalog = <<>>
  /\ budget = 0
  /\ BatchOff
  /\ proc = ProcIdle
  /\ pool = PoolOff
  /\ det = DetIdle
  /\ llm \in {[pc |-> "parse", content |-> c, is_reasoning_model |-> r, result |-> None] :
               c \in Responses, r \in BOOLEAN}

SpecParse == InitParse /\ [][ParseJsonResponse]_vars

\* one call of _call_llm about to make its first call of the backend
InitCall ==
  /\ pipeline = "mcp"
  /\ catalog = <<>>
  /\ budget = 0
  /\ BatchOff
  /\ proc = ProcIdle
  /\ pool = PoolOff
  /\ det = DetIdle
  /\ llm \in {CallNew(backend) : backend \in CallerBackends}

SpecCall == InitCall /\ [][CallLLM]_vars

\* one call of _call_ollama_with_tools about to send its first request to
\* one of the backends of the model pipeline
InitTools ==
  /\ pipeline = "model"
  /\ catalog = <<>>
  /\ budget = 0
  /\ BatchOff
  /\ proc = ProcIdle
  /\ pool = PoolOff
  /\ det = DetIdle
  /\ llm \in {ToolsNew(backend) : backend \in 1..MODEL_BACKENDS}

CallOllamaWithTools == \E reply \in ToolReplies : Post(reply)

SpecTools == InitTools /\ [][CallOllamaWithTools]_vars

\* one error message about to be searched for variable names
InitDetect ==
  /\ pipeline = "mcp"
  /\ catalog = <<>>
  /\ budget = 0
  /\ BatchOff
  /\ proc = ProcIdle
  /\ pool = PoolOff
  /\ llm = LLMIdle
  /\ det \in {[pc |-> "call", error_msg |-> m, vars_required |-> <<>>] : m \in ErrorTexts}

SpecDetect == InitDetect /\ [][DetectRequiredVars]_vars

\* one process on documents in which a record after lastProcessedId is
\* compiled, or is in the failed document
SpecResume == InitResume /\ [][NextLong]_vars

\* process_server_with_model on a record that names remote endpoints
SpecRemote == InitRemote /\ [][NextProc]_vars

SpecLong == InitLong /\ [][NextLong]_vars

\* the pipelines on a file system whose writes can fail
SpecIO == InitSmall /\ [][NextIO]_vars

\* process_server_with_model on one record, for every answer of the runtime and the model
SpecProc == InitProc /\ [][NextProc]_vars

\* process_server_with_model on one record, every spawn outcome included
SpecOutcome == InitOutcome /\ [][NextOutcome]_vars



\* ================================================================ claims

\* the process is an initial pass started with --resume
ResumedInitialPass == args.resume /\ args.phase # "2" /\ pc # "off"

\* C1: after a run from scratch that went to its end with every record
\* compiled, needing credentials or failed, a run with --resume on the same
\* catalog dispatches no record and leaves the compiled and the failed
\* document with the records they had.
C1_IdempotentResume ==
  (ResumedInitialPass /\ hist.prev = "clean") =>
    /\ batch = <<>>
    /\ pc = "exited" =>
         /\ compiledFile.doc.servers = hist.startCompiled
         /\ failedFile.doc.servers = hist.startFailed

DisjointMaps(c, f) == (DOMAIN c) \cap (DOMAIN f) = {}

\* a point at which the process has completed a flush and is not in the
\* middle of the next one
AfterFlushPoint == hist.flushed /\ pc \notin {"flush", "crashed", "aborted"}

\* C2 (as claimed): at every observation point after a flush no record id
\* is in both the compiled map/document and the failed map/document.
C2_NeverCompiledAndFailed ==
  AfterFlushPoint =>
    /\ DisjointMaps(compiled, failed)
    /\ DisjointMaps(compiledFile.doc.servers, failedFile.doc.servers)

\* C2 (amended): the same, provided no earlier process was interrupted in
\* the middle of a flush.
C2_NeverCompiledAndFailedUntorn ==
  (AfterFlushPoint /\ ~hist.torn) =>
    /\ DisjointMaps(compiled, failed)
    /\ DisjointMaps(compiledFile.doc.servers, failedFile.doc.servers)

C2_Witness ==
  /\ AfterFlushPoint /\ ~hist.torn /\ args.resume /\ hist.prev # "none"
  /\ batch # <<>>
  /\ compiledFile.doc.servers # EmptyMap /\ failedFile.doc.servers # EmptyMap

\* C3: at any interruption point, also in the middle of a flush, each of
\* the three documents on disk is the complete previous document or the
\* complete new one, never an empty or truncated file.
C3_InterruptedDocumentsComplete ==
  pc = "crashed" => Intact(progressFile) /\ Intact(compiledFile) /\ Intact(failedFile)

\* the flushes C4 asks for in a batch of n records: after the N-th, 2N-th,
\* ... handled result, and one more at the end of the batch
ExpectedFlushes(n) ==
  [k \in 1..(n \div CHECKPOINT_INTERVAL) |-> [at |-> k * CHECKPOINT_INTERVAL, final |-> FALSE]]
    \o <<[at |-> n, final |-> TRUE]>>

\* the initial pass has handled its whole batch and done its last flush
BatchEnded == pc \in {"exited", "phase2"} /\ batch # <<>>

\* C4: in an initial-pass batch of n >= 1 records in which no result
\* raises, the flushes are exactly those after the N-th, 2N-th, ...,
\* floor(n/N)*N-th handled result plus one at the end of the batch.
C4_CheckpointCadence ==
  (BatchEnded /\ ~hist.raised) => hist.flushLog = ExpectedFlushes(Len(batch))

\* C5: whenever the scheduler waits for the next completion, the results
\* handled (raised ones included) since the last flush are at most N-1.
C5_BoundedLoss ==
  pc \in {"loop", "mloop"} => hist.sinceFlush <= CHECKPOINT_INTERVAL - 1

\* C6: in a run with --resume after a run that was interrupted after a
\* flush (and not in the middle of one), every record of the failed
\* document is in the failed map when processing goes on, and after the
\* next flush it is in the failed document unless the run re-processed it.
C6_ResumeKeepsFailures ==
  (ResumedInitialPass /\ hist.prev = "cutFlushed") =>
    \A id \in DOMAIN hist.startFailed :
      /\ pc \in {"loop", "mloop"} => id \in DOMAIN failed
      /\ AfterFlushPoint => id \in DOMAIN failedFile.doc.servers \/ id \in SeqIds(batch)

\* C7: when the initial pass is interrupted (outside a flush) and run
\* again with --resume and no limit to its end, every record of the
\* catalog is in the compiled map or in the failed map (a record of the
\* failed document the run started from counts as being there).
C7_ResumeLosesNoWork ==
  (ResumedInitialPass /\ args.limit = 0 /\ hist.prev \in {"cut", "cutFlushed"}
     /\ ~hist.raised /\ pc = "exited") =>
    \A id \in SeqIds(catalog) :
      id \in (DOMAIN compiled) \cup (DOMAIN failed) \cup (DOMAIN hist.startFailed)

\* the external calls one record can take: per config one spawn and one
\* generate call, and one generate call after the loop
MaxCalls(p) == 2 * Len(p.spawn_configs) + 1

Outcome(ret) ==
  IF ret.compiled # None /\ ret.failed = None
    THEN (IF Get(ret.compiled[1], "spawn_failed", FALSE)
            THEN "compiled-needs-credentials" ELSE "compiled-success")
  ELSE IF ret.compiled = None /\ ret.failed # None THEN "failed"
  ELSE "none"

\* C8: for every record and every answer of the runtime and of the model
\* the processor makes finitely many external calls (never more than two
\* per config plus one), is always at an external call or returned, and returns
\* exactly one of a compiled and a failed payload: compiled-success,
\* compiled-needs-credentials or failed.
C8_ProcessorTotal ==
  /\ proc.calls <= MaxCalls(proc)
  /\ proc.pc \in {"start", "spawn", "gen_tools", "gen_repo", "gen_final", "returned"}
  /\ proc.pc = "spawn" => proc.idx \in 1..Len(proc.spawn_configs)
  /\ proc.pc = "returned" =>
       /\ (proc.ret.compiled = None) # (proc.ret.failed = None)
       /\ Outcome(proc.ret) = "compiled-success" =>
            proc.ret.success /\ proc.ret.msg = "SUCCESS"
       /\ Outcome(proc.ret) = "compiled-needs-credentials" =>
            proc.ret.success /\ proc.ret.msg = "CREDENTIALS"
       /\ Outcome(proc.ret) = "failed" => ~proc.ret.success /\ proc.ret.msg = "FAILED"

C8_Witness ==
  /\ proc.pc = "returned" /\ Outcome(proc.ret) = "failed"
  /\ Len(proc.transports_tried) >= 3 /\ proc.calls = MaxCalls(proc)

Last(seq) == seq[Len(seq)]

\* C9: a compiled record with spawn_failed has no tools (to_dict leaves
\* the empty list and the zero count out), a non-empty vars_required and
\* as working_transport the transport of the last config that was tried,
\* the spawn of which failed.
C9_CredentialRecordShape ==
  (proc.pc = "returned" /\ Outcome(proc.ret) = "compiled-needs-credentials") =>
    LET c == proc.ret.compiled[1]
    IN /\ Get(c, "tools", <<>>) = <<>>
       /\ Get(c, "tool_count", 0) = 0
       /\ Get(c, "vars_required", <<>>) # <<>>
       /\ Get(c, "working_transport", "") = Last(proc.transports_tried)
       /\ ~proc.spawn_ok

C9_Witness ==
  /\ proc.pc = "returned" /\ Outcome(proc.ret) = "compiled-needs-credentials"
  /\ Len(proc.transports_tried) >= 2

\* the except branch of run_phase1 has run for record id: the record is
\* in neither map, processed counts every handled result once (checked in
\* runs that start counting at 0), and the loop goes on
Dropped(id) ==
  /\ id \notin (DOMAIN compiled') \cup (DOMAIN failed')
  /\ ~args.resume => progress'.processed = Cardinality(Handled(nextq', running'))
  /\ pc' \in {"loop", "flush"}

\* C12: when obtaining a record's result (future.result()) or handling it
\* (up to the checkpoint flush) raises, the scheduler catches the
\* exception, counts the record once in processed, adds it to neither the
\* compiled nor the failed map and goes on.
C12_DroppedRecords ==
  [][/\ \A i \in running :
         (pc = "loop" /\ HandleResult(i, ResultRAISE(batch[i]))) => Dropped(batch[i])
     /\ FlushFail => Dropped(progress.last_processed_id)]_vars


\* the backends of the pipeline running, and the worker count of the run
Backends == IF pipeline = "mcp" THEN NUM_BACKENDS ELSE MODEL_BACKENDS

Candidates ==
  LET raw == Get(proc.server, "raw", proc.server)
  IN PackageConfigs(raw.packages) \o RemoteConfigs(raw.remotes)
       \o RemoteUrlConfigs(raw.remoteUrl) \o ImageConfigs(raw.image)

Resolved == proc.pc \notin {"idle", "start"}

KnownKinds == {"npx", "stdio", "http", "docker"}

Rank(kind) ==
  CASE kind = "npx" -> 0 [] kind = "stdio" -> 1 [] kind = "http" -> 2
    [] kind = "docker" -> 3 [] OTHER -> 4

\* get_spawn_configs has returned and no external call has been made yet
JustResolved == Resolved /\ proc.calls = 0

\* C14: get_spawn_configs returns at most one candidate per kind, the first
\* one found for that kind, in the order npx < stdio < http < docker; a
\* kind outside the table sorts after all known kinds.
C14_ResolveUniqueSorted ==
  JustResolved =>
  /\ LET cs == proc.spawn_configs
           found == Candidates
       IN /\ \A i, j \in 1..Len(cs) : i < j => Rank(cs[i].transport) < Rank(cs[j].transport)
          /\ \A i \in 1..Len(cs) :
               \E n \in 1..Len(found) :
                 /\ found[n] = cs[i]
                 /\ \A m \in 1..(n - 1) : found[m].transport # cs[i].transport
          /\ \A n \in 1..Len(found) :
               \E i \in 1..Len(cs) : cs[i].transport = found[n].transport
  /\ \A kind \in KnownKinds :
       /\ sort_key([transport |-> kind]) = Rank(kind)
       /\ sort_key([transport |-> "websocket"]) > sort_key([transport |-> kind])

\* a record with a package, two different http hints and an image is
\* resolved to three candidates, the http one from the first hint
C14_Witness ==
  /\ JustResolved
  /\ Len(Candidates) = 4
  /\ Candidates[2].transport = "http" /\ Candidates[3].transport = "http"
  /\ Candidates[2] # Candidates[3]
  /\ Len(proc.spawn_configs) = 3
  /\ proc.spawn_configs[2] = Candidates[2]

\* the endpoints proc.server names: raw.remotes[*].url and remoteUrl
HttpHints ==
  LET raw == Get(proc.server, "raw", proc.server)
  IN ({raw.remotes[n].url : n \in 1..Len(raw.remotes)} \cup {raw.remoteUrl}) \ {NoUrl}

\* the host of the endpoint, in any case of letters, holds a denylisted name
HostDenied(url) ==
  \E n \in 1..Len(url.host) :
    url.host[n] \in {"localhost", "LOCALHOST", "127.0.0.1", "0.0.0.0", "example.com", "your-"}

\* C15: get_spawn_configs returns no http candidate whose host is
\* denylisted, spawn_server_via_runtime is never called for such an
\* endpoint, and a record all of whose remote hints are denylisted gets no
\* http candidate.
C15_NoDenylistedEndpoint ==
  Resolved =>
    /\ \A i \in 1..Len(proc.spawn_configs) :
         proc.spawn_configs[i].transport = "http"
           => ~HostDenied(proc.spawn_configs[i].remoteUrl)
    /\ \A i \in 1..Len(proc.spawned) :
         proc.spawned[i].transport = "http" => ~HostDenied(proc.spawned[i].remoteUrl)
    /\ (\A u \in HttpHints : HostDenied(u))
         => \A i \in 1..Len(proc.spawn_configs) : proc.spawn_configs[i].transport # "http"

\* a record that names a denylisted host in capitals and a usable endpoint
\* has been resolved and the usable endpoint, only, has been spawned
C15_Witness ==
  /\ uLOCALHOST \in HttpHints
  /\ uSite \in HttpHints
  /\ Len(proc.spawned) = 1
  /\ proc.spawned[1].transport = "http" /\ proc.spawned[1].remoteUrl = uSite
  /\ proc.pc = "returned"

ValidTag(tag) ==
  /\ StrLen(tag) >= 2 /\ StrLen(tag) <= 25
  /\ \A i \in 1..Len(tag) : tag[i].c \in {"a", "-"}
  /\ tag[1].c # "-" /\ tag[Len(tag)].c # "-"
  /\ ~(Len(tag) = 1 /\ tag[1].w \in BANNED_TAGS)

\* the response carries an object with the three keys, tags being a list
WellFormed(content) ==
  \E i \in 1..Len(content) :
    /\ content[i].k = "object"
    /\ {"name", "description", "tags"} \subseteq DOMAIN content[i].data
    /\ content[i].data.tags.list

\* C16: a result of output validation is None or fully valid: a name of 3
\* to 60 characters, a description of 20 to 200, 2 to 4 tags, each of 2 to
\* 25 characters of [a-z0-9-] with no "-" at either end and not banned; a
\* response that is not an object with name, description and a list of
\* tags gives None.
C16_ResultsFullyValid ==
  llm.pc = "done" =>
    /\ ~WellFormed(llm.content) => llm.result = None
    /\ llm.result # None =>
         LET r == llm.result[1]
         IN /\ DOMAIN r = {"name", "description", "tags"}
            /\ StrLen(r.name) >= 3 /\ StrLen(r.name) <= 60
            /\ StrLen(r.description) >= 20 /\ StrLen(r.description) <= 200
            /\ Len(r.tags) >= 2 /\ Len(r.tags) <= 4
            /\ \A i \in 1..Len(r.tags) : ValidTag(r.tags[i])

\* a fenced response with an over-long name and more than five tags has
\* been validated to a result
C16_Witness ==
  /\ llm.pc = "done"
  /\ llm.result # None
  /\ llm.content[1].k = "fence"
  /\ StrLen(llm.content[2].data.name) > 60
  /\ Len(llm.content[2].data.tags.items) > 5
  /\ StrLen(llm.result[1].name) = 60
  /\ Len(llm.result[1].tags) = 4

\* the positions of error_msg where "requires credentials:" is followed by
\* an upper-case name
Markers == {i \in 1..(Len(det.error_msg) - 2) :
              /\ det.error_msg[i].s = "requires"
              /\ det.error_msg[i + 1].s = "credentials:"
              /\ det.error_msg[i + 2].up}

LongMarkers == {i \in Markers : det.error_msg[i + 2].n >= 2}

C18_SpawnsInListOrder ==
  Resolved =>
    /\ Len(proc.spawned) <= Len(proc.spawn_configs)
    /\ proc.spawned = SubSeq(proc.spawn_configs, 1, Len(proc.spawned))
    /\ proc.pc = "spawn" => Len(proc.spawned) = proc.idx - 1
    /\ proc.pc \in {"gen_tools", "gen_repo"} => Len(proc.spawned) = proc.idx
    /\ (proc.pc = "returned" /\ proc.ret.success)
         => /\ proc.spawned # <<>>
            /\ proc.ret.compiled[1].spawn = proc.spawned[Len(proc.spawned)]
            /\ Len(proc.spawned) = proc.idx
    /\ (proc.pc = "returned" /\ ~proc.ret.success) => proc.spawned = proc.spawn_configs

\* a record of three configs has ended as compiled at its second config
C18_Witness ==
  /\ proc.pc = "returned" /\ proc.ret.success
  /\ Len(proc.spawn_configs) = 3
  /\ Len(proc.spawned) = 2

\* the step after a generation that returned None
Continues ==
  IF proc.idx < Len(proc.spawn_configs)
    THEN proc'.pc = "spawn" /\ proc'.idx = proc.idx + 1
    ELSE proc'.pc = "gen_final"

\* C19: when a spawn has succeeded with at least one tool and
\* clean_server_with_tools returns None, the processor does not return: it
\* spawns the next config if there is one and goes to the code after the
\* loop only if there is none.
C19_GenerationFailureContinues ==
  [][(GenTools(None) /\ proc.result.success /\ proc.result.tools # <<>>) => Continues]_vars

\* the second config is about to be spawned after the first one answered
\* with tools and the generation returned None
C19_Witness ==
  /\ proc.pc = "spawn" /\ proc.idx = 2
  /\ proc.result.success /\ proc.result.tools # <<>>
  /\ Len(proc.spawned) = 1

\* C20: when a spawn has failed with an error that names variables and
\* clean_server_from_repo returns None, the processor goes on with the next
\* config; it returns a compiled record with spawn_failed set, for that
\* config, only if the generation returns metadata.
C20_CredentialsNeedMetadata ==
  [][\A llm_result \in LLMResults :
       (GenRepo(llm_result) /\ ~proc.result.success /\ proc.vars_required # <<>>)
         => IF llm_result = None
              THEN Continues
              ELSE /\ proc'.pc = "returned"
                   /\ proc'.ret.success
                   /\ proc'.ret.compiled[1].spawn_failed
                   /\ proc'.ret.compiled[1].spawn = proc.spawn_configs[proc.idx]
                   /\ proc'.ret.compiled[1].vars_required = proc.vars_required]_vars

\* the second config is about to be spawned after the first one failed
\* asking for credentials and the generation returned None
C20_Witness ==
  /\ proc.pc = "spawn" /\ proc.idx = 2
  /\ ~proc.result.success /\ proc.vars_required # <<>>
  /\ Len(proc.spawned) = 1
  /\ proc.calls = 2

\* the record has ended with a failed payload
EndedFailed == proc.pc = "returned" /\ proc.ret.failed # None

\* C21: the error and error_code of a failed record are those of the most
\* recent spawn of that record that failed (that did not succeed with a
\* tool), whatever happened at the configs after it (a spawn that succeeded
\* and a generation that returned None included).
C21_LastErrorOfFailedSpawn ==
  (EndedFailed /\ proc.failed_spawn # None) =>
    /\ proc.ret.failed[1].error = proc.failed_spawn[1].error
    /\ proc.ret.failed[1].error_code = proc.failed_spawn[1].error_code

\* the transports of a list of configs
KindsOf(configs) == [k \in 1..Len(configs) |-> configs[k].transport]

\* C22: a record ends as failed only after every config of
\* get_spawn_configs has been spawned, in order, and after exactly one call
\* of clean_server_from_repo behind the loop; the failed record has
\* retryable = False and as transports_tried the transports of all the
\* configs in the order they were tried.
C22_FailedAfterAllConfigs ==
  /\ proc.final_calls <= 1
  /\ proc.pc = "gen_final" => proc.spawned = proc.spawn_configs /\ proc.final_calls = 0
  /\ EndedFailed =>
       /\ proc.spawned = proc.spawn_configs
       /\ proc.final_calls = 1
       /\ proc.ret.failed[1].retryable = FALSE
       /\ proc.ret.failed[1].transports_tried = KindsOf(proc.spawn_configs)
       /\ proc.ret.failed[1].transports_tried = KindsOf(proc.spawned)

\* a record of three configs has ended as failed
C22_Witness ==
  /\ EndedFailed
  /\ Len(proc.spawn_configs) = 3
  /\ proc.final_calls = 1

\* C23: a record for which get_spawn_configs returns the empty list is
\* never spawned: the processor calls clean_server_from_repo once and
\* returns a failed payload with no transport tried and an empty error and
\* error_code, with the name, description and tags of the generation if
\* it returned metadata and the record's own name and description (and no
\* tag) if it returned None.
C23_EmptyResolveFailsAtOnce ==
  [][get_spawn_configs(proc.server) = <<>> =>
       /\ proc.pc \in {"start", "gen_final"}
       /\ proc.pc = "start" => proc'.pc = "gen_final" /\ proc'.calls = 0
       /\ proc.pc = "gen_final" =>
            \A llm_result \in LLMResults :
              GenFinal(llm_result) =>
                LET f == proc'.ret.failed[1]
                IN /\ proc'.pc = "returned"
                   /\ proc'.calls = 1 /\ proc'.final_calls = 1
                   /\ proc'.spawned = <<>>
                   /\ proc'.ret.compiled = None /\ ~proc'.ret.success
                   /\ f.transports_tried = <<>>
                   /\ f.error = <<>> /\ f.error_code = ""
                   /\ IF llm_result # None
                        THEN /\ f.name = llm_result[1].name
                             /\ f.description = llm_result[1].description
                             /\ f.tags = llm_result[1].tags
                        ELSE /\ f.name = proc.server.name
                             /\ f.description = proc.server.description
                             /\ f.tags = <<>>]_vars

\* a record without any config has ended as failed under a generated name
C23_Witness ==
  /\ EndedFailed
  /\ proc.spawn_configs = <<>>
  /\ proc.calls = 1
  /\ proc.ret.failed[1].name # proc.server.name

\* the error codes of a spawn call that timed out or did not get through
TransientCodes == {"TIMEOUT", "REQUEST_ERROR"}

\* C24 as stated: no failed record has the code of a spawn call that
\* timed out or did not get through as its error_code.
C24_TransientNeverSurfaced ==
  EndedFailed => proc.ret.failed[1].error_code \notin TransientCodes

\* the most recent spawn timed out or did not get through
TransientSpawn ==
  /\ proc.spawned # <<>>
  /\ ~proc.result.success
  /\ proc.result.error_code \in TransientCodes

\* C24: a spawn call that timed out or did not get through is a failed
\* spawn like any other: its message and code become the last error, the
\* processor goes on with the next config (its message names no variable),
\* and a record that ends as failed with no further spawn carries that
\* message and that code.
C24_TransientIsLastError ==
  TransientSpawn =>
    /\ proc.last_error = proc.result.error
    /\ proc.last_error_code = proc.result.error_code
    /\ detect_required_vars(proc.result.error) = <<>>
         => proc.pc \in {"spawn", "gen_final", "returned"}
    /\ proc.pc = "returned" =>
         /\ proc.ret.failed # None
         /\ proc.ret.failed[1].error = proc.result.error
         /\ proc.ret.failed[1].error_code = proc.result.error_code

\* a record of two configs has ended as failed after its second spawn did
\* not get through
C24_Witness ==
  /\ EndedFailed
  /\ TransientSpawn
  /\ Len(proc.spawned) = 2
  /\ proc.ret.failed[1].error_code = "REQUEST_ERROR"

\* a result that passed every check of the output validation
FullyValid(r) ==
  /\ DOMAIN r = {"name", "description", "tags"}
  /\ StrLen(r.name) >= 3 /\ StrLen(r.name) <= 60
  /\ StrLen(r.description) >= 20 /\ StrLen(r.description) <= 200
  /\ Len(r.tags) >= 2 /\ Len(r.tags) <= 4
  /\ \A i \in 1..Len(r.tags) : ValidTag(r.tags[i])

\* the backend calls made so far in the retry loop
LoopCalls == {i \in 1..Len(llm.calls) : llm.calls[i].in_loop}

\* C25: whatever the backend does at each call (a text, an empty content, a
\* rate limit, a timeout, an API error, a connection error, any other
\* exception), _call_llm raises nothing, makes at most 3 backend calls in
\* its retry loop and at most 4 in all, and returns None or a result that
\* passed the output validation.
C25_CallNeverRaisesAndIsBounded ==
  /\ llm.pc \in {"create", "fallback", "parse", "done"}
  /\ llm.attempt < MAX_RETRIES
  /\ Cardinality(LoopCalls) <= 3
  /\ Len(llm.calls) <= 4
  /\ llm.pc = "done" => llm.result = None \/ FullyValid(llm.result[1])

\* three calls of the retry loop raised, the fallback answered and the
\* answer passed the validation
C25_Witness ==
  /\ llm.pc = "done"
  /\ Cardinality(LoopCalls) = 3 /\ Len(llm.calls) = 4
  /\ \E i \in LoopCalls : llm.calls[i].outcome = "raise"
  /\ llm.result # None

\* the calls made to the fallback of the backend: the call behind the
\* loop, and the calls of the loop after "model = fallback_model"
FallbackCalls ==
  {i \in 1..Len(llm.calls) : ~llm.calls[i].in_loop \/ llm.calls[i].model # llm.backend.model}

\* C26: in one call of _call_llm the fallback is called at most once, by
\* the single call behind the retry loop, and only if the backend names a
\* fallback that is not its own model.
C26_FallbackOnceSingleShot ==
  /\ Cardinality(FallbackCalls) <= 1
  /\ \A i \in FallbackCalls : ~llm.calls[i].in_loop
  /\ FallbackCalls # {} =>
       llm.fallback_model # "" /\ llm.fallback_model # llm.backend.model

\* the response is a bare object with a name and a description that pass
\* their checks and a list of tags
GoodButTags ==
  /\ llm.pc = "done"
  /\ Len(llm.content) = 1 /\ llm.content[1].k = "object"
  /\ {"name", "description", "tags"} \subseteq DOMAIN llm.content[1].data
  /\ llm.content[1].data.tags.list
  /\ CleanName(llm.content[1].data.name) # None
  /\ CleanDesc(llm.content[1].data.description) # None

\* a tag that is neither banned nor shorter than 2 once normalised
Survives(t) == StrLen(CleanTag(t)) >= 2 /\ ~IsBanned(CleanTag(t))

\* the normalised tags of a list that survive, in the order of the list
Survivors(items) ==
  LET kept == SelectSeq(items, Survives)
  IN [i \in 1..Len(kept) |-> CleanTag(kept[i])]

\* the rule on the tags of a list: rejected with fewer than 2, else the
\* first 4 at most
TagRule(items) ==
  /\ llm.result = None <=> Len(Survivors(items)) < 2
  /\ llm.result # None =>
       llm.result[1].tags = SubSeq(Survivors(items), 1, Min(4, Len(Survivors(items))))

\* C27 as stated: a response with a valid name and description is rejected
\* if and only if fewer than 2 tags of its list survive, and otherwise
\* keeps the first 4 survivors at most, in order.
C27_TagRuleWholeList ==
  GoodButTags => TagRule(llm.content[1].data.tags.items)

\* C27: a response with a valid name and description is rejected if and
\* only if fewer than 2 of the first 5 tags of its list survive the
\* normalisation (lower case, white space stripped, cut to 25 characters,
\* "-" for every character outside [a-z0-9-], "-" trimmed at both ends) and
\* the filter (not banned, 2 characters at least); otherwise the result has
\* the first 4 survivors at most, in the order of the list.
C27_TagRuleFirstFive ==
  GoodButTags =>
    TagRule(SubSeq(llm.content[1].data.tags.items, 1,
                   Min(5, Len(llm.content[1].data.tags.items))))

\* a response with six tags, two survivors among them but one among the
\* first five, has been rejected
C27_Witness ==
  /\ GoodButTags
  /\ Len(llm.content[1].data.tags.items) = 6
  /\ Len(Survivors(llm.content[1].data.tags.items)) = 2
  /\ llm.result = None

\* the structures a step changes
Changed ==
  (IF compiled' # compiled THEN {"compiled"} ELSE {})
    \cup (IF failed' # failed THEN {"failed"} ELSE {})
    \cup (IF progress' # progress THEN {"progress"} ELSE {})

\* every mutation of ops is made holding the lock of what it mutates
AllLocked(ops) ==
  \A e \in ops : e.op = "mutate" => LockOf[e.what] \in e.held

\* whatever the step changes is among the mutations of ops
Covers(ops) == \A x \in Changed : Op("mutate", x, {LockOf[x]}) \in ops \/ Op("mutate", x, {}) \in ops

\* the process is still there after the step (the memory of a process that
\* has ended is gone)
Alive == pc' \notin {"off", "exited", "crashed", "aborted"}

\* the handling of a result: its mutations are all made under the lock
HandlingLocked ==
  \A i \in running : \A r \in WorkerResults(batch[i]) :
    HandleResult(i, r) => Covers(HandleOps(r, pc)) /\ AllLocked(HandleOps(r, pc))

\* C28 as stated: every mutation of the compiled map, the failed map and
\* the progress counters in run_phase1 and run_phase2 is made holding the
\* lock of the structure.
C28_EveryMutationLocked ==
  [][/\ RunPhase1 /\ Alive => (Changed # {} => Covers(SetupOps(1)) /\ AllLocked(SetupOps(1)))
     /\ RunPhase2 /\ Alive => (Changed # {} => Covers(SetupOps(2)) /\ AllLocked(SetupOps(2)))
     /\ HandlingLocked]_vars

\* C28: every mutation of the compiled map, the failed map and the
\* progress counters made while the results of the workers are handled is
\* made holding the lock of the structure; what run_phase1 and run_phase2
\* change before they submit their batch (the progress fields, the records
\* taken out of the failed map) is changed with no lock held.
C28_HandlingLockedSetupNot ==
  [][/\ RunPhase1 /\ Alive => (Changed # {} => /\ Covers(SetupOps(1))
                                       /\ \A e \in SetupOps(1) : e.held = {})
     /\ RunPhase2 /\ Alive => (Changed # {} => /\ Covers(SetupOps(2))
                                       /\ \A e \in SetupOps(2) : e.held = {})
     /\ HandlingLocked]_vars

\* results have been handled that changed each of the three structures
C28_Witness ==
  /\ pipeline = "mcp" /\ progress.total > 0
  /\ compiled # EmptyMap /\ failed # EmptyMap
  /\ progress.processed >= 2

\* a step of a flush of the mcp-compiler
FlushStep == pipeline = "mcp" /\ (FlushOpen \/ FlushWrite)

\* the step writes no other document than the one of the flush
WritesOwn ==
  /\ progressFile' # progressFile => flush.file = 1
  /\ compiledFile' # compiledFile => flush.file = 2
  /\ failedFile' # failedFile => flush.file = 3

\* C29 as stated: a flush reads what goes into a document holding the
\* lock of the structure read, and writes the document with no lock held.
C29_SnapshotThenWriteUnlocked ==
  [][FlushStep =>
       /\ WritesOwn
       /\ \A e \in SaveOps(flush.file) :
            /\ e.op = "write" => e.held = {}
            /\ e.op = "read" => LockOf[e.what] \in e.held]_vars

\* C29: a flush of a document holds the lock of the structure the document
\* belongs to, and no other, from the snapshot to the end of the write: the
\* file is written with that lock held, and what the compiled document
\* takes from the progress counters and from the failed map is read under
\* the compiled lock only.
C29_WriteUnderOwnLock ==
  [][FlushStep =>
       /\ WritesOwn
       /\ \A e \in SaveOps(flush.file) :
            /\ e.held = {LockOf[StructureOf[flush.file]]}
            /\ e.op = "write" => e.what = StructureOf[flush.file]]_vars

\* the compiled document is open for writing in a flush
C29_Witness ==
  /\ pipeline = "mcp" /\ pc = "flush"
  /\ flush.file = 2 /\ flush.open
  /\ compiled # EmptyMap

\* C30: a step of process_server_with_model in a worker leaves the
\* compiled map, the failed map and the progress counters as they are, and
\* while the loop over the finished workers runs these change only when the
\* result of a worker that has returned is handled (or the process dies).
C30_WorkerLeavesMapsUnchanged ==
  [][/\ NextOutcome => UNCHANGED <<compiled, failed, progress>>
     /\ (pc \in {"loop", "loop2"} /\ Changed # {}) =>
          \/ \E i \in running : \E r \in WorkerResults(batch[i]) : HandleResult(i, r)
          \/ Crash]_vars

\* the worker has returned a failed record while the loop runs and nothing
\* has been handled yet
C30_Witness ==
  /\ pc = "loop" /\ running # {}
  /\ proc.pc = "returned" /\ proc.ret.failed # None
  /\ compiled = EmptyMap /\ failed = EmptyMap /\ progress.processed = 0

\* a batch has been submitted to the pool and the process is alive
InBatch == pc \in {"loop", "loop2", "mloop", "flush"} /\ batch # <<>>

\* C31: at every moment of a batch at most as many records are being
\* processed as the pool has workers, a worker of the model pipeline works
\* on one record of its chunk at a time, no record is begun twice, and when
\* all results have been handled every record of the batch was begun
\* exactly once.
C31_PoolBoundExactlyOnce ==
  InBatch =>
    /\ Cardinality(running) <= args.workers
    /\ \A k \in running : k \in 1..Len(batch) /\ pool.starts[k] = 1
    /\ \A k \in 1..Len(batch) : pool.starts[k] <= 1
    /\ pipeline = "model" =>
         \A k1, k2 \in running : ChunkOf(k1) = ChunkOf(k2) => k1 = k2
    /\ (nextq > Len(batch) /\ (pipeline = "mcp" => running = {})) =>
         /\ running = {}
         /\ \A k \in 1..Len(batch) : pool.starts[k] = 1

\* the pool is full while tasks wait: three of four records in the threads
\* of the mcp pipeline, or one chunk in the only process of the model
\* pipeline while the second chunk waits
C31_Witness ==
  /\ InBatch
  /\ Cardinality(running) = args.workers
  /\ \E k \in 1..Len(batch) : pool.starts[k] = 0

\* C32 as stated: when a batch of n records of the initial pass has
\* completed, whatever the outcomes (an exception of a checkpoint flush
\* included), every result has been handled and processed has grown by
\* exactly n (checked in runs that start counting at 0).
C32_ProcessedGrowsByBatch ==
  (BatchEnded /\ pipeline = "mcp" /\ ~args.resume) =>
    /\ AllHandled(nextq, running)
    /\ progress.processed = Len(batch)

\* the ids of a map that stand in seq after the position of last (all of
\* them when last is not in seq)
After(seq, last, m) ==
  {seq[i] : i \in {i \in 1..Len(seq) :
                     /\ seq[i] \in DOMAIN m
                     /\ \A j \in 1..Len(seq) : seq[j] = last => j < i}}

\* C33: the batch of a resumed initial pass holds no record whose id is in
\* the compiled map the process has loaded, and that map is the one of the
\* compiled document (in the model pipeline: when the progress document
\* was read), whatever --limit and lastProcessedId are.
C33_ResumeSkipsCompiled ==
  [][((RunPhase1 \/ ModelRun) /\ args.resume /\ pc' \in {"loop", "mloop"}) =>
       /\ SeqIds(batch') \cap DOMAIN compiled' = {}
       /\ (compiledFile.st = "complete"
             /\ (pipeline = "model" => progressFile.st = "complete")) =>
            compiled' = compiledFile.doc.servers]_vars

\* a resumed pass has submitted a batch, and a record that stands after
\* lastProcessedId in the catalog is left out of it for being compiled
C33_Witness ==
  /\ args.resume /\ pc \in {"loop", "mloop"}
  /\ hist.flushLog = <<>> /\ hist.sinceFlush = 0
  /\ progressFile.st = "complete"
  /\ After(servers, progressFile.doc.last_processed_id, compiled) # {}

\* a call of _call_ollama_with_tools is under way or has ended
ToolCall == "tool_turns" \in DOMAIN llm

\* C34: one call of the tool-calling generate loop sends at most 3
\* requests to the backend, and when the backend has asked for a tool call
\* in all 3 turns the call returns None.
C34_ToolLoopBounded ==
  ToolCall =>
    /\ llm.requests <= MAX_TURNS
    /\ llm.tool_turns = MAX_TURNS => llm.pc = "returned" /\ llm.result = None

\* the backend has asked for a tool call three times
C34_Witness ==
  /\ ToolCall
  /\ llm.requests = 3 /\ llm.tool_turns = 3 /\ llm.pc = "returned"

DroppedRecords ==
  {k \in Handled(nextq, running) :
     batch[k] \notin (DOMAIN compiled) \cup (DOMAIN failed)}

\* C36 as stated: at every flush of an initial pass that started from
\* zeroed progress, processed = success_count + failed_count + the number
\* of dropped records, success_count is at most the size of the compiled
\* map and failed_count at least the size of the failed map.
C36_CounterAccounting ==
  (pipeline = "mcp" /\ pc = "flush" /\ flush.from \in {"checkpoint", "final"}
     /\ ~args.resume) =>
    /\ progress.processed
         = progress.success_count + progress.failed_count + Cardinality(DroppedRecords)
    /\ progress.success_count <= Cardinality(DOMAIN compiled)
    /\ progress.failed_count >= Cardinality(DOMAIN failed)

HeldLocks_nested ==
  IF pipeline = "mcp" /\ pc = "flush" /\ flush.open
    THEN {LockOf[StructureOf[flush.file]], "progress_lock"} ELSE {}

\* the locks held between two steps: the with statement of save_progress,
\* save_compiled or save_failed is open while its file is; every other with
\* statement begins and ends inside one step
HeldLocks ==
  IF pipeline = "mcp" /\ pc = "flush" /\ flush.open
    THEN {LockOf[StructureOf[flush.file]]} ELSE {}

\* C37: no access holds two of compiled_lock, failed_lock and
\* progress_lock, a lock is free whenever the scheduler takes it (so the
\* acquisition succeeds at once), and a step of a worker takes and releases
\* none.
C37_NoTwoLocksWorkersNone ==
  [][/\ \A i \in running : \A r \in WorkerResults(batch[i]) :
          HandleResult(i, r) =>
            /\ HeldLocks = {}
            /\ \A e \in HandleOps(r, pc) : Cardinality(e.held) <= 1
     /\ FlushStep =>
          /\ ~flush.open => HeldLocks = {}
          /\ \A e \in SaveOps(flush.file) :
               Cardinality(e.held \cup HeldLocks) <= 1
                 /\ Cardinality(e.held \cup HeldLocks') <= 1
     /\ NextOutcome => HeldLocks' = HeldLocks
     /\ Cardinality(HeldLocks') <= 1]_vars

\* the scheduler holds compiled_lock, the compiled document open, after a
\* worker has returned and its result has been handled
C37_Witness ==
  /\ HeldLocks = {"compiled_lock"}
  /\ proc.pc = "returned"
  /\ progress.processed > 0

\* the position of lastProcessedId in the batch, 0 when it is not there
PositionOfLast ==
  IF \E k \in 1..Len(batch) : batch[k] = progress.last_processed_id
    THEN CHOOSE k \in 1..Len(batch) : batch[k] = progress.last_processed_id
    ELSE 0

\* C38 as stated: at every flush of the model pipeline every record of the
\* batch at or before the position of lastProcessedId is in the compiled
\* map or the failed map, and none after it is.
C38_HandledPrefixOfBatch ==
  (pipeline = "model" /\ pc = "flush") =>
    \A k \in 1..Len(batch) :
      (k <= PositionOfLast)
        <=> (batch[k] \in (DOMAIN compiled) \cup (DOMAIN failed))

\* C38: at every flush of the model pipeline the results handled so far in
\* the run are those of the first records of the batch, the last of them the
\* record of lastProcessedId; every record of the batch at or before that
\* position is in the compiled map or the failed map, and no record after it
\* is in the compiled map, nor in the failed map unless the run was resumed
\* (the failed map a resumed run loads may hold records of its batch).
C38_HandledPrefixResumedFailedAside ==
  (pipeline = "model" /\ pc = "flush") =>
    /\ PositionOfLast = nextq - 1
    /\ \A k \in 1..Len(batch) :
         /\ k <= PositionOfLast =>
              batch[k] \in (DOMAIN compiled) \cup (DOMAIN failed)
         /\ k > PositionOfLast =>
              /\ batch[k] \notin DOMAIN compiled
              /\ batch[k] \in DOMAIN failed => args.resume

\* a checkpoint of a resumed run of the model pipeline after the first
\* result of a batch of two, the second record in the failed map that was
\* loaded
C38_Witness ==
  /\ pipeline = "model" /\ pc = "flush" /\ args.resume
  /\ Len(batch) = 2 /\ PositionOfLast = 1
  /\ batch[2] \in DOMAIN failed

\* the spawn reported success and no tool
ToolLess(result) == result.success /\ Get(result, "tools", <<>>) = <<>>

\* C39: a spawn that reports success with no tool is the failure of its
\* config with an empty error: the step calls no generation, detects no
\* credential, sets the last error and its code to the empty ones, and goes
\* on with the next config (with the code behind the loop after the last).
C39_ToolLessSuccessIsEmptyFailure ==
  [][\A result \in (IF proc.pc = "spawn"
                      THEN AllSpawnResponses(proc.spawn_configs[proc.idx]) ELSE {}) :
       (Spawn(result) /\ ToolLess(result)) =>
         /\ proc'.calls = proc.calls + 1
         /\ proc'.vars_required = <<>>
         /\ proc'.last_error = <<>> /\ proc'.last_error_code = ""
         /\ proc'.failed_spawn = Some([error |-> <<>>, error_code |-> ""])
         /\ IF proc.idx < Len(proc.spawn_configs)
              THEN proc'.pc = "spawn" /\ proc'.idx = proc.idx + 1
              ELSE proc'.pc = "gen_final"]_vars

\* the second of three configs was spawned with success and no tool, and
\* the third is next
C39_Witness ==
  /\ proc.pc = "spawn" /\ proc.idx = 3
  /\ Len(proc.spawned) = 2
  /\ ToolLess(proc.result)
  /\ proc.last_error = <<>> /\ proc.last_error_code = ""

\* the configs get_spawn_configs returns for the record of the worker: those
\* the processor holds once it has called it
ConfigsOf(p) ==
  IF p.pc = "start" THEN get_spawn_configs(p.server) ELSE p.spawn_configs

\* C40: get_spawn_configs returns three configs at most for a record and
\* never an npx config together with a stdio config, and the processor
\* makes three spawn calls at most for a record, one for each config.
C40_AtMostThreeNeverNpxAndStdio ==
  proc.pc # "idle" =>
    LET configs == ConfigsOf(proc)
    IN /\ Len(configs) <= 3
       /\ ~(\E i, j \in 1..Len(configs) :
              configs[i].transport = "npx" /\ configs[j].transport = "stdio")
       /\ Len(proc.spawned) <= Len(configs)
       /\ Len(proc.spawned) <= 3

\* a record whose packages are an npm package and then a PyPI package, with
\* a remote endpoint and an image, has been spawned three times
C40_Witness ==
  /\ proc.pc # "idle"
  /\ LET raw == Get(proc.server, "raw", proc.server)
     IN /\ Len(raw.packages) = 2
        /\ Get(raw.packages[1], "registryType", "") = "npm"
        /\ Get(raw.packages[2], "registryType", "") = "pypi"
  /\ Len(proc.spawned) = 3
  /\ KindsOf(proc.spawn_configs) = <<"npx", "http", "docker">>
====
